---- MODULE Spec2Model ----
(***************************************************************************)
(* Model of the two stateful cores of hannes-os:                           *)
(*   - the virtual file-system service (src/lib/file-system/file-system.ts *)
(*     over the IndexedDB adapter src/unnamed/part_011), and               *)
(*   - the window manager (WindowProvider in src/components/desktop.tsx).  *)
(* Spec      : the file-system service, one completed call per step.       *)
(* SpecFault : the same, where a storage call of a deleteEntity may throw. *)
(* SpecWM    : the window manager, one applied call per step.              *)
(* SpecStack : the window manager with openWindow, closeWindow and         *)
(*             minimizeWindow only, over one more window.                  *)
(* SpecGeom  : the window manager's geometry (move, resize, maximize).     *)
(* SpecRead  : the read operations, where a storage call may throw.        *)
(* SpecEmpty : initialize on an empty database, where a call may throw.    *)
(* SpecLink, SpecPath, SpecMeta : updateLink, path resolution and          *)
(*             updateEntityMetadata over richer inputs.                    *)
(* SpecOpen  : useFileOpener and the double-click handler of the desktop.  *)
(* SpecRace  : createFile and updateEntityMetadata in flight together.     *)
(***************************************************************************)
EXTENDS Integers, Sequences, FiniteSets, TLC

VARIABLES
    store,        \* IndexedDB object store "files": id -> entity
    saved,        \* IndexedDB object store "file-system", key "state"
    mem,          \* FileSystem.state (in-memory aggregate)
    initialized,  \* FileSystem.initialized
    nextId,       \* number of uuids drawn so far + 1
    fsHung,       \* a call was issued that never returns
    faults,       \* number of storage calls that threw so far
    last,         \* the call that completed last and its result
    calls,        \* the calls in flight, each at one of its awaits
    windows,      \* WindowProvider: windows
    activeWindowId,
    highestZIndex,
    nextWinId,    \* number of window uuids drawn so far + 1
    assigned,     \* history: the zIndex values assigned so far
    premax,       \* history: of each maximized window, its position when
                  \* toggleMaximize maximized it
    errorDialogMessage  \* DialogProvider: errorDialogMessage

fsVars == <<store, saved, mem, initialized, nextId, fsHung, faults, last, calls>>
wmVars == <<windows, activeWindowId, highestZIndex, nextWinId, assigned, premax>>
uiVars == <<errorDialogMessage>>
vars == <<fsVars, wmVars, uiVars>>

----------------------------------------------------------------------------
(* Bounds of the model *)

\* uuids the file system may draw (entities ever created, the root included)
MaxIds == 3
\* window uuids the window manager may draw
MaxWindows == 2
\* cap on highestZIndex (openWindow / activateWindow / restoreWindow calls)
MaxZ == 4
\* storage calls that may throw in one behaviour of SpecFault
MaxFaults == 1
\* window uuids the window manager may draw in SpecStack
MaxStack == 3
\* window uuids the window manager may draw in SpecGeom
MaxGeom == 2
\* the last storage call of initialize that may throw in SpecEmpty
MaxInitFault == 72
\* entity uuids the service may draw in SpecPath
MaxPathIds == 4

----------------------------------------------------------------------------
(* Values *)

\* parentId: null of the root; also the "" rootId of a fresh FileSystem
NullId == 0
\* a field the entity variant does not have (content of a directory, ...)
Absent == "<absent>"
\* the rootId "" of a FileSystem that was not initialized
NoRootId == -1
\* this.state before initialize: { entities: {}, rootId: "" }
EmptyState == [entities |-> <<>>, rootId |-> NoRootId]
\* db.getFileSystemState() when nothing was saved: undefined
NoState == [entities |-> <<>>, rootId |-> -2]

Ids == 1..MaxIds

\* ".lnk"
LnkSuffix == <<".", "l", "n", "k">>
\* the names callers pass (strings as sequences of characters)
NameInputs == { <<"a">>, <<"a">> \o LnkSuffix }
LinkTargetTypes == {"application"}
TargetInputs == {"t"}
ContentInputs == {"hello"}
\* metadata patches callers pass, as sets of <<key, value>> pairs
MetadataInputs == { {<<"x", 1>>} }
\* an updates field the caller did not pass / passed as undefined
NotGiven == "<not given>"
Undefined == "<undefined>"
NameNotGiven == <<NotGiven>>
NameUndefined == <<Undefined>>
\* the updates objects callers pass to updateLink
UpdateInputs ==
    [name : NameInputs \cup {NameNotGiven}, targetType : {NotGiven},
     target : {NotGiven}]

----------------------------------------------------------------------------
(* Strings *)

\* String.prototype.endsWith
EndsWith(s, suf) ==
    /\ Len(s) >= Len(suf)
    /\ SubSeq(s, Len(s) - Len(suf) + 1, Len(s)) = suf

\* name.endsWith(".lnk") ? name : `${name}.lnk`
LinkName(name) == IF EndsWith(name, LnkSuffix) THEN name ELSE name \o LnkSuffix

----------------------------------------------------------------------------
(* The storage adapter (IndexedDB) *)

Min(S) == CHOOSE x \in S : \A y \in S : x <= y

RECURSIVE SortedSeq(_)
SortedSeq(S) == IF S = {} THEN <<>> ELSE <<Min(S)>> \o SortedSeq(S \ {Min(S)})

\* db.put("files", entity) on a copy of the object store
Put(entities, e) ==
    [i \in (DOMAIN entities) \cup {e.id} |-> IF i = e.id THEN e ELSE entities[i]]

\* db.delete("files", id) / delete this.state.entities[id]
Remove(entities, id) == [i \in (DOMAIN entities) \ {id} |-> entities[i]]

\* db.getAllFromIndex("files", "by-parent", parentId): the records whose
\* parentId is the key, in primary-key order.  A null key is no key range:
\* the call then returns every record of the index, and the index holds
\* the records whose parentId is a valid key (all but those with null).
ChildIds(entities, parentId) ==
    IF parentId = NullId
    THEN {i \in DOMAIN entities : entities[i].parentId # NullId}
    ELSE {i \in DOMAIN entities : entities[i].parentId = parentId}

RECURSIVE ByKey(_, _)
ByKey(entities, keys) ==
    IF keys = <<>> THEN <<>>
    ELSE SortedSeq({i \in DOMAIN entities : entities[i].parentId = Head(keys)})
             \o ByKey(entities, Tail(keys))

getEntitiesByParent(entities, parentId) ==
    IF parentId = NullId
    THEN ByKey(entities,
               SortedSeq({entities[i].parentId : i \in ChildIds(entities, NullId)}))
    ELSE SortedSeq(ChildIds(entities, parentId))

\* siblings.some((entity) => entity.name === name)
SomeNamed(entities, parentId, name) ==
    \E i \in ChildIds(entities, parentId) : entities[i].name = name

\* siblings.some((e) => e.name === name && e.id !== id)
SomeOtherNamed(entities, parentId, name, id) ==
    \E i \in ChildIds(entities, parentId) : entities[i].name = name /\ i # id

----------------------------------------------------------------------------
(* Entities *)

Directory(id, name, parentId) ==
    [id |-> id, name |-> name, type |-> "directory", parentId |-> parentId,
     content |-> Absent, targetType |-> Absent, target |-> Absent,
     metadata |-> {}]

File(id, name, parentId, content) ==
    [id |-> id, name |-> name, type |-> "file", parentId |-> parentId,
     content |-> content, targetType |-> Absent, target |-> Absent,
     metadata |-> {}]

Link(id, name, parentId, targetType, target) ==
    [id |-> id, name |-> name, type |-> "link", parentId |-> parentId,
     content |-> Absent, targetType |-> targetType, target |-> target,
     metadata |-> {}]

----------------------------------------------------------------------------
(* A call in progress: the three stores, the number n of storage calls made *)
(* so far, the storage call f that throws (0: none), the result, and in     *)
(* stamped the ids of the entities stored with modifiedAt: Date.now().      *)

Begin(f) ==
    [store |-> store, mem |-> mem, saved |-> saved, n |-> 0, f |-> f,
     success |-> TRUE, error |-> "", hung |-> FALSE, log |-> <<>>, stamped |-> {}]

\* F applied to the value of v
Then(v, F(_)) == CHOOSE out \in {F(x) : x \in {v}} : TRUE

\* one more storage call is issued
Call(c) == [c EXCEPT !.n = @ + 1]
\* ... and it is the one that throws
Threw(c) == c.f # 0 /\ c.n = c.f

Fail(c, error) == [c EXCEPT !.success = FALSE, !.error = error]
Ok(c) == [c EXCEPT !.success = TRUE, !.error = ""]

\* !parent || parent.type !== "directory"
NoParentDir(entities, parentId) ==
    \/ parentId \notin DOMAIN entities
    \/ entities[parentId].type # "directory"

----------------------------------------------------------------------------
(* FileSystem operations, each from the state c of the call in progress *)

\* createDirectory as it would be without the look at the siblings' names
createDirectoryUnchecked(c, name, parentId, id) ==
    LET c1 == Call(c)
        c2 == Call(c1)
        c3 == Call(c2)
        directory == Directory(id, name, parentId)
        c4 == [c3 EXCEPT !.store = Put(@, directory), !.stamped = @ \cup {directory.id},
                         !.mem.entities = Put(@, directory)]
        c5 == Call(c4)
    IN  IF Threw(c1) THEN Fail(c1, "Failed to create directory")
        ELSE IF NoParentDir(c1.store, parentId)
        THEN Fail(c1, "Parent directory not found")
        ELSE IF Threw(c2) THEN Fail(c2, "Failed to create directory")
        ELSE IF Threw(c3) THEN Fail(c3, "Failed to create directory")
        ELSE IF Threw(c5) THEN Fail(c5, "Failed to create directory")
        ELSE Ok([c5 EXCEPT !.saved = c5.mem])

\* createDirectory(name, parentId), the new uuid being id
createDirectory(c, name, parentId, id) ==
    LET c1 == Call(c)                                  \* db.getEntity
        c2 == Call(c1)                                 \* db.getEntitiesByParent
        c3 == Call(c2)                                 \* db.saveEntity
        directory == Directory(id, name, parentId)
        c4 == [c3 EXCEPT !.store = Put(@, directory), !.stamped = @ \cup {directory.id},
                         !.mem.entities = Put(@, directory)]
        c5 == Call(c4)                                 \* db.saveFileSystemState
    IN  IF Threw(c1) THEN Fail(c1, "Failed to create directory")
        ELSE IF NoParentDir(c1.store, parentId)
        THEN Fail(c1, "Parent directory not found")
        ELSE IF Threw(c2) THEN Fail(c2, "Failed to create directory")
        ELSE IF SomeNamed(c2.store, parentId, name)
        THEN Fail(c2, "already exists")
        ELSE IF Threw(c3) THEN Fail(c3, "Failed to create directory")
        ELSE IF Threw(c5) THEN Fail(c5, "Failed to create directory")
        ELSE Ok([c5 EXCEPT !.saved = c5.mem])

\* createFile(name, parentId, content), the new uuid being id
createFile(c, name, parentId, content, id) ==
    LET c1 == Call(c)                                  \* db.getEntity
        c2 == Call(c1)                                 \* db.getEntitiesByParent
        c3 == Call(c2)                                 \* db.saveEntity
        file == File(id, name, parentId, content)
        c4 == [c3 EXCEPT !.store = Put(@, file), !.stamped = @ \cup {file.id},
                         !.mem.entities = Put(@, file)]
        c5 == Call(c4)                                 \* db.saveFileSystemState
    IN  IF Threw(c1) THEN Fail(c1, "Failed to create file")
        ELSE IF NoParentDir(c1.store, parentId)
        THEN Fail(c1, "Parent directory not found")
        ELSE IF Threw(c2) THEN Fail(c2, "Failed to create file")
        ELSE IF SomeNamed(c2.store, parentId, name)
        THEN Fail(c2, "already exists")
        ELSE IF Threw(c3) THEN Fail(c3, "Failed to create file")
        ELSE IF Threw(c5) THEN Fail(c5, "Failed to create file")
        ELSE Ok([c5 EXCEPT !.saved = c5.mem])

\* createLink(name, parentId, targetType, target), the new uuid being id:
\* the sibling check compares the name as passed, the link is stored under
\* the name with the suffix; this.state is not updated.
createLink(c, name, parentId, targetType, target, id) ==
    LET c1 == Call(c)                                  \* db.getEntity
        c2 == Call(c1)                                 \* db.getEntitiesByParent
        c3 == Call(c2)                                 \* db.saveEntity
        link == Link(id, LinkName(name), parentId, targetType, target)
    IN  IF Threw(c1) THEN Fail(c1, "Failed to create link")
        ELSE IF NoParentDir(c1.store, parentId)
        THEN Fail(c1, "Parent directory not found")
        ELSE IF Threw(c2) THEN Fail(c2, "Failed to create link")
        ELSE IF SomeNamed(c2.store, parentId, name)
        THEN Fail(c2, "already exists")
        ELSE IF Threw(c3) THEN Fail(c3, "Failed to create link")
        ELSE Ok([c3 EXCEPT !.store = Put(@, link), !.stamped = @ \cup {link.id}])

\* renameEntity(entityId, newName)
renameEntity(c, entityId, newName) ==
    LET c1 == Call(c)                                  \* db.getEntity
        c2 == Call(c1)                                 \* db.getEntitiesByParent
        c3 == Call(c2)                                 \* db.saveEntity
        entity == c.store[entityId]
        updatedEntity == [entity EXCEPT !.name = newName]
        c4 == [c3 EXCEPT !.store = Put(@, updatedEntity), !.stamped = @ \cup {updatedEntity.id},
                         !.mem.entities = Put(@, updatedEntity)]
        c5 == Call(c4)                                 \* db.saveFileSystemState
    IN  IF Threw(c1) THEN Fail(c1, "Failed to rename entity")
        ELSE IF entityId \notin DOMAIN c1.store
        THEN Fail(c1, "Entity not found")
        ELSE IF Threw(c2) THEN Fail(c2, "Failed to rename entity")
        ELSE IF SomeOtherNamed(c2.store, entity.parentId, newName, entityId)
        THEN Fail(c2, "already exists")
        ELSE IF Threw(c3) THEN Fail(c3, "Failed to rename entity")
        ELSE IF Threw(c5) THEN Fail(c5, "Failed to rename entity")
        ELSE Ok([c5 EXCEPT !.saved = c5.mem])

\* moveEntity as it would be without the look at the names in the destination
moveEntityUnchecked(c, entityId, newParentId) ==
    LET c1 == Call(c)
        c2 == Call(c1)
        c3 == Call(c2)
        c4 == Call(c3)
        entity == c.store[entityId]
        updatedEntity == [entity EXCEPT !.parentId = newParentId]
        c5 == [c4 EXCEPT !.store = Put(@, updatedEntity), !.stamped = @ \cup {updatedEntity.id},
                         !.mem.entities = Put(@, updatedEntity)]
        c6 == Call(c5)
    IN  IF Threw(c1) THEN Fail(c1, "Failed to move entity")
        ELSE IF entityId \notin DOMAIN c1.store
        THEN Fail(c1, "Entity not found")
        ELSE IF Threw(c2) THEN Fail(c2, "Failed to move entity")
        ELSE IF NoParentDir(c2.store, newParentId)
        THEN Fail(c2, "Destination directory not found")
        ELSE IF Threw(c3) THEN Fail(c3, "Failed to move entity")
        ELSE IF Threw(c4) THEN Fail(c4, "Failed to move entity")
        ELSE IF Threw(c6) THEN Fail(c6, "Failed to move entity")
        ELSE Ok([c6 EXCEPT !.saved = c6.mem])

\* moveEntity(entityId, newParentId)
moveEntity(c, entityId, newParentId) ==
    LET c1 == Call(c)                                  \* db.getEntity(entityId)
        c2 == Call(c1)                                 \* db.getEntity(newParentId)
        c3 == Call(c2)                                 \* db.getEntitiesByParent
        c4 == Call(c3)                                 \* db.saveEntity
        entity == c.store[entityId]
        updatedEntity == [entity EXCEPT !.parentId = newParentId]
        c5 == [c4 EXCEPT !.store = Put(@, updatedEntity), !.stamped = @ \cup {updatedEntity.id},
                         !.mem.entities = Put(@, updatedEntity)]
        c6 == Call(c5)                                 \* db.saveFileSystemState
    IN  IF Threw(c1) THEN Fail(c1, "Failed to move entity")
        ELSE IF entityId \notin DOMAIN c1.store
        THEN Fail(c1, "Entity not found")
        ELSE IF Threw(c2) THEN Fail(c2, "Failed to move entity")
        ELSE IF NoParentDir(c2.store, newParentId)
        THEN Fail(c2, "Destination directory not found")
        ELSE IF Threw(c3) THEN Fail(c3, "Failed to move entity")
        ELSE IF SomeNamed(c3.store, newParentId, entity.name)
        THEN Fail(c3, "already exists in the destination")
        ELSE IF Threw(c4) THEN Fail(c4, "Failed to move entity")
        ELSE IF Threw(c6) THEN Fail(c6, "Failed to move entity")
        ELSE Ok([c6 EXCEPT !.saved = c6.mem])

\* a falsy updates.name: not passed, undefined or ""
Falsy(name) == name \in {NameNotGiven, NameUndefined, <<>>}

\* { ...link, ...updates }: a key that is passed overrides, also when its
\* value is undefined
Spread(old, new) == IF new = NotGiven THEN old ELSE new

\* updateLink(linkId, updates): the sibling check compares updates.name as
\* passed, the link is stored under the name with the suffix; this.state
\* is not updated.  this.getEntity turns a storage fault into undefined.
updateLink(c, linkId, updates) ==
    LET c1 == Call(c)                                  \* this.getEntity
        link == c.store[linkId]
        checks == ~Falsy(updates.name) /\ updates.name # link.name
        c2 == IF checks THEN Call(c1) ELSE c1          \* db.getEntitiesByParent
        c3 == Call(c2)                                 \* db.saveEntity
        updatedLink ==
            [link EXCEPT !.targetType = Spread(@, updates.targetType),
                         !.target = Spread(@, updates.target),
                         !.name = IF ~Falsy(updates.name)
                                  THEN LinkName(updates.name) ELSE link.name]
    IN  IF Threw(c1) \/ linkId \notin DOMAIN c1.store
        THEN Fail(c1, "Link not found")
        ELSE IF link.type # "link" THEN Fail(c1, "Link not found")
        ELSE IF checks /\ Threw(c2) THEN Fail(c2, "Failed to update link")
        ELSE IF checks /\ SomeOtherNamed(c2.store, link.parentId, updates.name, linkId)
        THEN Fail(c2, "already exists")
        ELSE IF Threw(c3) THEN Fail(c3, "Failed to update link")
        ELSE Ok([c3 EXCEPT !.store = Put(@, updatedLink),
                         !.stamped = @ \cup {updatedLink.id}])

\* updateFileContent(fileId, content)
updateFileContent(c, fileId, content) ==
    LET c1 == Call(c)                                  \* db.getEntity
        c2 == Call(c1)                                 \* db.saveEntity
        updatedFile == [c.store[fileId] EXCEPT !.content = content]
        c3 == [c2 EXCEPT !.store = Put(@, updatedFile), !.stamped = @ \cup {updatedFile.id},
                         !.mem.entities = Put(@, updatedFile)]
        c4 == Call(c3)                                 \* db.saveFileSystemState
    IN  IF Threw(c1) THEN Fail(c1, "Failed to update file content")
        ELSE IF fileId \notin DOMAIN c1.store THEN Fail(c1, "File not found")
        ELSE IF c1.store[fileId].type # "file" THEN Fail(c1, "File not found")
        ELSE IF Threw(c2) THEN Fail(c2, "Failed to update file content")
        ELSE IF Threw(c4) THEN Fail(c4, "Failed to update file content")
        ELSE Ok([c4 EXCEPT !.saved = c4.mem])

\* { ...entity.metadata, ...metadataUpdates }
MergeMetadata(metadata, metadataUpdates) ==
    {p \in metadata : \A q \in metadataUpdates : q[1] # p[1]} \cup metadataUpdates

\* updateEntityMetadata as it would be if the patch replaced the metadata
updateEntityMetadataReplacing(c, entityId, metadataUpdates) ==
    LET c1 == Call(c)
        c2 == Call(c1)
        updatedEntity == [c.store[entityId] EXCEPT !.metadata = metadataUpdates]
    IN  IF Threw(c1) \/ entityId \notin DOMAIN c1.store
        THEN Fail(c1, "Entity not found")
        ELSE IF Threw(c2) THEN Fail(c2, "Failed to update metadata")
        ELSE Ok([c2 EXCEPT !.store = Put(@, updatedEntity)])

\* updateEntityMetadata(entityId, metadataUpdates); this.state is not updated
updateEntityMetadata(c, entityId, metadataUpdates) ==
    LET c1 == Call(c)                                  \* this.getEntity
        c2 == Call(c1)                                 \* db.saveEntity
        updatedEntity ==
            [c.store[entityId] EXCEPT !.metadata = MergeMetadata(@, metadataUpdates)]
    IN  IF Threw(c1) \/ entityId \notin DOMAIN c1.store
        THEN Fail(c1, "Entity not found")
        ELSE IF Threw(c2) THEN Fail(c2, "Failed to update metadata")
        ELSE Ok([c2 EXCEPT !.store = Put(@, updatedEntity)])

\* deleteEntity(entityId): the children listed before the loop are deleted
\* one by one, the result of each recursive call being dropped; then the
\* entity.  depth bounds the recursion: a chain of parentId that returns to
\* entityId makes the recursion endless, which is reported as hung.
RECURSIVE deleteEntity(_, _, _)
RECURSIVE deleteChildren(_, _, _)
deleteEntity(c, entityId, depth) ==
    IF c.hung THEN c
    ELSE IF depth = 0 THEN [c EXCEPT !.hung = TRUE]
    ELSE
    LET c1 == Call(c)                                  \* db.getEntity
        isDir == c1.store[entityId].type = "directory"
        c2 == IF isDir THEN Call(c1) ELSE c1           \* db.getEntitiesByParent
        children == IF isDir THEN getEntitiesByParent(c2.store, entityId) ELSE <<>>
        Rest(c3) ==
            LET c4 == Call(c3)                         \* db.deleteEntity
                c5 == [c4 EXCEPT !.store = Remove(@, entityId),
                                 !.mem.entities = Remove(@, entityId),
                                 !.log = Append(@, entityId)]
                c6 == Call(c5)                         \* db.saveFileSystemState
            IN  IF c3.hung THEN c3
                ELSE IF Threw(c4) THEN Fail(c4, "Failed to delete entity")
                ELSE IF Threw(c6) THEN Fail(c6, "Failed to delete entity")
                ELSE Ok([c6 EXCEPT !.saved = c6.mem])
    IN  IF Threw(c1) THEN Fail(c1, "Failed to delete entity")
        ELSE IF entityId \notin DOMAIN c1.store THEN Fail(c1, "Entity not found")
        ELSE IF isDir /\ Threw(c2) THEN Fail(c2, "Failed to delete entity")
        ELSE Then(deleteChildren(c2, children, depth - 1), Rest)

deleteChildren(c, children, depth) ==
    IF children = <<>> \/ c.hung THEN c
    ELSE Then(deleteEntity(c, Head(children), depth),
              LAMBDA r : deleteChildren(r, Tail(children), depth))

----------------------------------------------------------------------------
(* Paths *)

\* getPath(entityId) over the object store; depth bounds the recursion, an
\* endless one (a chain of parentId that never reaches null) gives Endless.
Endless == <<"<endless>">>
RECURSIVE getPath(_, _, _)
getPath(entities, entityId, depth) ==
    IF depth = 0 THEN Endless
    ELSE IF entityId \notin DOMAIN entities THEN <<>>
    ELSE IF entities[entityId].parentId = NullId THEN <<"/">>
    ELSE LET parentPath == getPath(entities, entities[entityId].parentId, depth - 1)
         IN  IF parentPath = Endless THEN Endless
             ELSE (IF parentPath = <<"/">> THEN <<>> ELSE parentPath)
                      \o <<"/">> \o entities[entityId].name

\* path.replace(/^\/+/, '')
RECURSIVE StripLeading(_)
StripLeading(path) ==
    IF path # <<>> /\ Head(path) = "/" THEN StripLeading(Tail(path)) ELSE path

\* path.replace(/\/+$/, '')
RECURSIVE StripTrailing(_)
StripTrailing(path) ==
    IF path # <<>> /\ path[Len(path)] = "/"
    THEN StripTrailing(SubSeq(path, 1, Len(path) - 1)) ELSE path

\* normalizedPath.split('/'): the parts, empty ones included
RECURSIVE Split(_, _)
Split(path, part) ==
    IF path = <<>> THEN <<part>>
    ELSE IF Head(path) = "/" THEN <<part>> \o Split(Tail(path), <<>>)
    ELSE Split(Tail(path), Append(part, Head(path)))

\* children.find((child) => child.name === part): the first match, or NullId
RECURSIVE Find(_, _, _)
Find(entities, children, part) ==
    IF children = <<>> THEN NullId
    ELSE IF entities[Head(children)].name = part THEN Head(children)
    ELSE Find(entities, Tail(children), part)

\* the for loop of getEntityByPath from part i on; the id of the entity
\* returned, NullId for null / undefined
RECURSIVE Walk(_, _, _, _)
Walk(entities, parts, i, currentEntityId) ==
    IF i > Len(parts)
    THEN (IF currentEntityId \in DOMAIN entities THEN currentEntityId ELSE NullId)
    ELSE IF parts[i] = <<>> THEN Walk(entities, parts, i + 1, currentEntityId)
    ELSE LET foundChild ==
                 Find(entities, getEntitiesByParent(entities, currentEntityId), parts[i])
         IN  IF foundChild = NullId THEN NullId
             ELSE IF entities[foundChild].type = "directory"
             THEN Walk(entities, parts, i + 1, foundChild)
             ELSE IF i < Len(parts) THEN NullId
             ELSE foundChild

\* getEntityByPath(path): the id of the entity returned, NullId for none
getEntityByPath(entities, isInitialized, rootId, path) ==
    IF ~isInitialized THEN NullId
    ELSE IF path = <<"/">>
    THEN (IF rootId \in DOMAIN entities THEN rootId ELSE NullId)
    ELSE Walk(entities, Split(StripTrailing(StripLeading(path)), <<>>), 1, rootId)

\* The same operations from the state c of the call in progress, with the
\* storage calls they issue.  The result is <<c, value>>; c.error = "thrown"
\* says that an exception left the operation.
Thrown == "thrown"

\* getEntity(id): the try block returns db.getEntity(id), the catch undefined
getEntity(c, id) ==
    LET c1 == Call(c)                                  \* db.getEntity
    IN  <<Ok(c1), IF Threw(c1) \/ id \notin DOMAIN c1.store THEN NullId ELSE id>>

\* the for loop of getEntityByPath from part i on
RECURSIVE WalkIn(_, _, _, _)
WalkIn(c, parts, i, currentEntityId) ==
    IF i > Len(parts) THEN getEntity(c, currentEntityId)
    ELSE IF parts[i] = <<>> THEN WalkIn(c, parts, i + 1, currentEntityId)
    ELSE LET c1 == Call(c)                             \* db.getEntitiesByParent
             foundChild ==
                 Find(c1.store, getEntitiesByParent(c1.store, currentEntityId), parts[i])
         IN  IF Threw(c1) THEN <<Fail(c1, Thrown), NullId>>
             ELSE IF foundChild = NullId THEN <<Ok(c1), NullId>>
             ELSE IF c1.store[foundChild].type = "directory"
             THEN WalkIn(c1, parts, i + 1, foundChild)
             ELSE IF i < Len(parts) THEN <<Ok(c1), NullId>>
             ELSE <<Ok(c1), foundChild>>

\* getEntityByPath(path)
getEntityByPathIn(c, isInitialized, path) ==
    LET c1 == Call(c)                                  \* db.getEntity
    IN  IF ~isInitialized THEN <<Ok(c), NullId>>
        ELSE IF path = <<"/">>
        THEN (IF Threw(c1) THEN <<Fail(c1, Thrown), NullId>>
              ELSE <<Ok(c1), IF c1.mem.rootId \in DOMAIN c1.store
                             THEN c1.mem.rootId ELSE NullId>>)
        ELSE WalkIn(c, Split(StripTrailing(StripLeading(path)), <<>>), 1, c.mem.rootId)

\* listDirectory(dirId): the try block returns db.getEntitiesByParent(dirId),
\* the catch []
listDirectory(c, dirId) ==
    LET c1 == Call(c)                                  \* db.getEntitiesByParent
    IN  <<Ok(c1), IF Threw(c1) THEN <<>> ELSE getEntitiesByParent(c1.store, dirId)>>

\* listDirectoryByPath(path)
listDirectoryByPath(c, isInitialized, path) ==
    LET dir == getEntityByPathIn(c, isInitialized, path)
    IN  IF dir[1].error = Thrown THEN <<dir[1], <<>>>>
        ELSE IF dir[2] = NullId \/ dir[1].store[dir[2]].type # "directory"
        THEN <<dir[1], <<>>>>
        ELSE listDirectory(dir[1], dir[2])

\* getPath(entityId), each level in its own try block; depth bounds the
\* recursion as in getPath above
RECURSIVE getPathIn(_, _, _)
getPathIn(c, entityId, depth) ==
    LET c1 == Call(c)                                  \* db.getEntity
        parent == getPathIn(c1, c1.store[entityId].parentId, depth - 1)
    IN  IF depth = 0 THEN <<[c EXCEPT !.hung = TRUE], Endless>>
        ELSE IF Threw(c1) THEN <<Ok(c1), <<>>>>
        ELSE IF entityId \notin DOMAIN c1.store THEN <<Ok(c1), <<>>>>
        ELSE IF c1.store[entityId].parentId = NullId THEN <<Ok(c1), <<"/">>>>
        ELSE IF parent[1].hung THEN parent
        ELSE <<Ok(parent[1]),
               (IF parent[2] = <<"/">> THEN <<>> ELSE parent[2])
                   \o <<"/">> \o c1.store[entityId].name>>

----------------------------------------------------------------------------
(* initialize *)

\* DEFAULT_APPS: the registered applications (the icon left out); props are
\* sets of <<key, value>> pairs, a defaultProps that is not there is None
DEFAULT_APPS ==
    << [id |-> "filemanager", name |-> <<"File Manager">>,
        component |-> "FileManager", defaultSize |-> [width |-> 700, height |-> 500],
        defaultProps |-> <<{<<"initialPath", <<"/">>>>}>>],
       [id |-> "textedit", name |-> <<"TextEdit">>,
        component |-> "Notepad", defaultSize |-> [width |-> 500, height |-> 400],
        defaultProps |-> <<>>],
       [id |-> "browser", name |-> <<"Browser">>,
        component |-> "Browser", defaultSize |-> [width |-> 800, height |-> 600],
        defaultProps |-> <<{<<"initialUrl", "https://www.example.com">>}>>],
       [id |-> "systempreferences", name |-> <<"System Preferences">>,
        component |-> "SystemPreferences", defaultSize |-> [width |-> 650, height |-> 450],
        defaultProps |-> <<{}>>] >>

\* createLink(app.name, dir, "application", app.id) for each app
AppLinks(parent) ==
    [k \in 1..Len(DEFAULT_APPS) |->
        [kind |-> "link", name |-> DEFAULT_APPS[k].name, parent |-> parent,
         must |-> FALSE, content |-> DEFAULT_APPS[k].id]]

\* The calls of createNewFileSystem after the root, in order.  parent is the
\* position of the call that created the parent (0: the root); must says
\* that a failure of the call throws.
DefaultDirs ==
    << [kind |-> "dir", name |-> <<"Users">>, parent |-> 0, must |-> TRUE, content |-> ""],
       [kind |-> "dir", name |-> <<"Applications">>, parent |-> 0, must |-> TRUE, content |-> ""],
       [kind |-> "dir", name |-> <<"System">>, parent |-> 0, must |-> FALSE, content |-> ""],
       [kind |-> "dir", name |-> <<"User">>, parent |-> 1, must |-> TRUE, content |-> ""],
       [kind |-> "dir", name |-> <<"Documents">>, parent |-> 4, must |-> TRUE, content |-> ""],
       [kind |-> "dir", name |-> <<"Desktop">>, parent |-> 4, must |-> TRUE, content |-> ""],
       [kind |-> "dir", name |-> <<"Downloads">>, parent |-> 4, must |-> FALSE, content |-> ""],
       [kind |-> "dir", name |-> <<"Pictures">>, parent |-> 4, must |-> FALSE, content |-> ""] >>

DefaultFiles ==
    << [kind |-> "file", name |-> <<"Welcome.txt">>, parent |-> 5, must |-> FALSE, content |-> "welcome"],
       [kind |-> "file", name |-> <<"Notes.txt">>, parent |-> 5, must |-> FALSE, content |-> "notes"],
       [kind |-> "file", name |-> <<"Todo.txt">>, parent |-> 5, must |-> FALSE, content |-> "todo"] >>

DefaultTree == DefaultDirs \o AppLinks(2) \o AppLinks(6) \o DefaultFiles

\* the k-th call of createNewFileSystem, rootId being the root's uuid and
\* rootId + k the uuid the call draws
DefaultCall(c, k, rootId) ==
    LET s == DefaultTree[k]
    IN  CASE s.kind = "dir" -> createDirectory(c, s.name, rootId + s.parent, rootId + k)
          [] s.kind = "link" ->
                createLink(c, s.name, rootId + s.parent, "application", s.content, rootId + k)
          [] s.kind = "file" ->
                createFile(c, s.name, rootId + s.parent, s.content, rootId + k)

\* the try block of createNewFileSystem from call k on; success = FALSE
\* says that it threw
RECURSIVE DefaultCalls(_, _, _)
DefaultCalls(c, k, rootId) ==
    IF k > Len(DefaultTree) THEN Ok(c)
    ELSE Then(DefaultCall(c, k, rootId),
              LAMBDA r : IF DefaultTree[k].must /\ ~r.success THEN Fail(r, "thrown")
                         ELSE DefaultCalls(r, k + 1, rootId))

\* createNewFileSystem(), rootId being the uuid drawn for the root;
\* success = FALSE says that an exception escaped
createNewFileSystem(c, rootId) ==
    LET rootDir == Directory(rootId, <<"/">>, NullId)
        rootOnly == [entities |-> Put(<<>>, rootDir), rootId |-> rootId]
        c1 == Call([c EXCEPT !.mem = rootOnly])        \* db.saveEntity(rootDir)
        c2 == DefaultCalls([c1 EXCEPT !.store = Put(@, rootDir),
                                      !.stamped = @ \cup {rootId}], 1, rootId)
        c3 == Call(c2)                                 \* db.saveFileSystemState
        thrown == IF c2.success THEN c3 ELSE c2
        c4 == Call([thrown EXCEPT !.mem = rootOnly])   \* catch: save minimal state
    IN  IF Threw(c1) THEN Fail(c1, "thrown")
        ELSE IF c2.success /\ ~Threw(c3) THEN Ok([c3 EXCEPT !.saved = c3.mem])
        ELSE IF Threw(c4) THEN Fail(c4, "thrown")
        ELSE Ok([c4 EXCEPT !.saved = c4.mem])

\* initialize as it would be without the return when already initialized
initializeAgain(c, isInitialized, rootId) ==
    LET c1 == Call(c)
        r == createNewFileSystem(c1, rootId)
    IN  IF Threw(c1) THEN Fail(c1, "Failed to initialize file system")
        ELSE IF c1.saved # NoState THEN Ok([c1 EXCEPT !.mem = c1.saved])
        ELSE IF r.success THEN Ok(r)
        ELSE Fail(r, "Failed to initialize file system")

\* initialize(), rootId being the uuid a new root would get
initialize(c, isInitialized, rootId) ==
    LET c1 == Call(c)                                  \* db.getFileSystemState
        r == createNewFileSystem(c1, rootId)
    IN  IF isInitialized THEN Ok(c)
        ELSE IF Threw(c1) THEN Fail(c1, "Failed to initialize file system")
        ELSE IF c1.saved # NoState THEN Ok([c1 EXCEPT !.mem = c1.saved])
        ELSE IF r.success THEN Ok(r)
        ELSE Fail(r, "Failed to initialize file system")

----------------------------------------------------------------------------
(* The file-system service: one completed call per step *)

\* The database an earlier session leaves when everything under the root
\* was deleted (deleteEntity of /Users, /Applications and /System): the
\* root alone, in the object store and in the saved aggregate.
RootId == 1
RootDir == Directory(RootId, <<"/">>, NullId)

NoCall == [op |-> "none", success |-> TRUE, error |-> "", log |-> <<>>,
           stamped |-> {}]

\* no call is in flight.  before and firstId are history: the object store
\* and the next uuid when the first of the calls in flight was issued;
\* batches counts the times a first call was issued
NoCalls == [before |-> <<>>, firstId |-> 0, running |-> <<>>, batches |-> 0]

InitFS ==
    /\ store = Put(<<>>, RootDir)
    /\ saved = [entities |-> Put(<<>>, RootDir), rootId |-> RootId]
    /\ mem = EmptyState
    /\ initialized = FALSE
    /\ nextId = RootId + 1
    /\ fsHung = FALSE
    /\ faults = 0
    /\ last = NoCall
    /\ calls = NoCalls

\* the call returned (or, hung, never will): its effects, and in last its
\* result, the ids it deleted, in order, and the ids it stamped
Return(r, op) ==
    /\ r.f # 0 => (faults < MaxFaults /\ r.n >= r.f)
    /\ faults' = IF r.f # 0 THEN faults + 1 ELSE faults
    /\ store' = r.store
    /\ mem' = r.mem
    /\ saved' = r.saved
    /\ fsHung' = r.hung
    /\ last' = [op |-> IF r.hung THEN "hung" ELSE op, success |-> r.success,
                error |-> r.error, log |-> r.log, stamped |-> r.stamped]
    /\ UNCHANGED <<calls, wmVars, uiVars>>

\* callers await initialize() before any other call, and each call before
\* the next
Ready == initialized /\ ~fsHung

\* a uuid is drawn when the new entity is built
Drawn(r) == IF nextId \in DOMAIN r.store THEN nextId + 1 ELSE nextId

Initialize(f) ==
    /\ ~fsHung
    /\ LET r == initialize(Begin(f), initialized, nextId)
       IN  /\ Return(r, "initialize")
           /\ initialized' = (initialized \/ r.success)
           /\ nextId' = IF r.mem.rootId = nextId
                        THEN nextId + 1 + Len(DefaultTree) ELSE nextId

CreateDirectoryCall(f, name, parentId) ==
    /\ Ready
    /\ LET r == createDirectory(Begin(f), name, parentId, nextId)
       IN  /\ nextId \in DOMAIN r.store => nextId <= MaxIds
           /\ Return(r, "createDirectory")
           /\ nextId' = Drawn(r)
    /\ UNCHANGED initialized

CreateDirectory(f) ==
    \E name \in NameInputs, parentId \in Ids : CreateDirectoryCall(f, name, parentId)

CreateFileCall(f, name, parentId, content) ==
    /\ Ready
    /\ LET r == createFile(Begin(f), name, parentId, content, nextId)
       IN  /\ nextId \in DOMAIN r.store => nextId <= MaxIds
           /\ Return(r, "createFile")
           /\ nextId' = Drawn(r)
    /\ UNCHANGED initialized

CreateFile(f) ==
    \E name \in NameInputs, parentId \in Ids, content \in ContentInputs :
        CreateFileCall(f, name, parentId, content)

CreateLink(f) ==
    /\ Ready
    /\ \E name \in NameInputs, parentId \in Ids,
          targetType \in LinkTargetTypes, target \in TargetInputs :
         LET r == createLink(Begin(f), name, parentId, targetType, target, nextId)
         IN  /\ nextId \in DOMAIN r.store => nextId <= MaxIds
             /\ Return(r, "createLink")
             /\ nextId' = Drawn(r)
    /\ UNCHANGED initialized

UpdateLink(f) ==
    /\ Ready
    /\ \E linkId \in Ids, updates \in UpdateInputs :
         Return(updateLink(Begin(f), linkId, updates), "updateLink")
    /\ UNCHANGED <<initialized, nextId>>

UpdateFileContent(f) ==
    /\ Ready
    /\ \E fileId \in Ids, content \in ContentInputs :
         Return(updateFileContent(Begin(f), fileId, content), "updateFileContent")
    /\ UNCHANGED <<initialized, nextId>>

UpdateEntityMetadata(f) ==
    /\ Ready
    /\ \E entityId \in Ids, metadataUpdates \in MetadataInputs :
         Return(updateEntityMetadata(Begin(f), entityId, metadataUpdates), "updateEntityMetadata")
    /\ UNCHANGED <<initialized, nextId>>

RenameEntityCall(f, entityId, newName) ==
    /\ Ready
    /\ Return(renameEntity(Begin(f), entityId, newName), "renameEntity")
    /\ UNCHANGED <<initialized, nextId>>

RenameEntity(f) ==
    \E entityId \in Ids, newName \in NameInputs : RenameEntityCall(f, entityId, newName)

MoveEntityCall(f, entityId, newParentId) ==
    /\ Ready
    /\ Return(moveEntity(Begin(f), entityId, newParentId), "moveEntity")
    /\ UNCHANGED <<initialized, nextId>>

MoveEntity(f) ==
    \E entityId \in Ids, newParentId \in Ids : MoveEntityCall(f, entityId, newParentId)

DeleteEntityCall(f, entityId) ==
    /\ Ready
    /\ Return(deleteEntity(Begin(f), entityId, Cardinality(DOMAIN store) + 1), "deleteEntity")
    /\ UNCHANGED <<initialized, nextId>>

DeleteEntity(f) == \E entityId \in Ids : DeleteEntityCall(f, entityId)

NextFS ==
    \/ Initialize(0)
    \/ CreateDirectory(0)
    \/ CreateFile(0)
    \/ CreateLink(0)
    \/ UpdateLink(0)
    \/ RenameEntity(0)
    \/ MoveEntity(0)
    \/ DeleteEntity(0)

----------------------------------------------------------------------------
(* WindowProvider: values *)

\* thumbnail: null
Null == "<null>"
\* an optional field or argument that has no value is <<>>, one that has a
\* value v is <<v>>
None == <<>>

\* minimum width and height of updateWindowSize
MinWidth == 200
MinHeight == 100
\* the default minimize target lies this far below the window
MinimizeOffset == 500
\* toggleMaximize: menu bar, dock, and the viewport when there is no window
\* object
MenuBarHeight == 24
DockHeight == 60
DefaultInnerWidth == 1200
DefaultInnerHeight == 800

\* inputs of the calls
PositionInputs == { [x |-> 50, y |-> 40, width |-> 200, height |-> 100] }
PartialPositionInputs == { [x |-> 50] }
SizeInputs == { [width |-> 150, height |-> 50] }
TargetPositionInputs == { None, <<[x |-> 600, y |-> 780]>> }
ThumbnailInputs == { NotGiven, Null, "", "data:image/png" }
ViewportInputs == { None }

\* the window ids drawn so far: the ids a caller can hold, of open windows
\* and of closed ones
Issued == 1..(nextWinId - 1)

----------------------------------------------------------------------------
(* WindowProvider: the handlers, on w = [windows, activeWindowId,
   highestZIndex] *)

\* prev.map(f)
Map(prev, f(_)) == [i \in DOMAIN prev |-> f(prev[i])]

\* seq.reduce((highest, current) => current.zIndex > highest.zIndex ? current
\* : highest, seq[0]): the first window among those of the highest zIndex
TopWindow(seq) ==
    seq[CHOOSE i \in DOMAIN seq :
            \A j \in DOMAIN seq :
                /\ seq[j].zIndex <= seq[i].zIndex
                /\ j < i => seq[j].zIndex < seq[i].zIndex]

\* x || null
OrNull(x) == IF x \in {NotGiven, Null, ""} THEN Null ELSE x

\* { ...old, ...new }
Merge(old, new) ==
    [k \in DOMAIN old \cup DOMAIN new |-> IF k \in DOMAIN new THEN new[k] ELSE old[k]]

Max(a, b) == IF a >= b THEN a ELSE b

\* { ...params, id, isActive: true, ... }: the fields the caller passed
\* (position; title, component and props when an opener passes them) and the
\* ones openWindow sets
NewWindow(params, id, newZIndex) ==
    Merge(params,
          [id |-> id, position |-> params.position, previousPosition |-> None,
           isActive |-> TRUE, isMinimized |-> FALSE, isMaximized |-> FALSE,
           zIndex |-> newZIndex, minimizeAnimation |-> None, thumbnail |-> Null])

\* openWindow as it would be if the windows open before kept isActive
openWindowKeepingActive(w, params, id) ==
    LET newZIndex == w.highestZIndex + 1
    IN  [windows |-> Append(w.windows, NewWindow(params, id, newZIndex)),
         activeWindowId |-> id,
         highestZIndex |-> newZIndex]

\* openWindow as it would be if it assigned highestZIndex again
openWindowSameZIndex(w, params, id) ==
    LET newZIndex == w.highestZIndex
    IN  [windows |-> Append(Map(w.windows, LAMBDA window : [window EXCEPT !.isActive = FALSE]),
                            NewWindow(params, id, newZIndex)),
         activeWindowId |-> id,
         highestZIndex |-> newZIndex]

openWindow(w, params, id) ==
    LET newZIndex == w.highestZIndex + 1
    IN  [windows |-> Append(Map(w.windows, LAMBDA window : [window EXCEPT !.isActive = FALSE]),
                            NewWindow(params, id, newZIndex)),
         activeWindowId |-> id,
         highestZIndex |-> newZIndex]

\* closeWindow(id).  The updater calls setActiveWindowId(topWindow.id) and
\* the handler then setActiveWindowId(null) when windows.length === 1 and
\* id === activeWindowId; both happen only for an id that is no open window,
\* and then which of them is applied last depends on when React runs the
\* updater: at the setWindows call (eager) or at the next render.
closeWindow(w, id, eager) ==
    LET filtered == SelectSeq(w.windows, LAMBDA window : window.id # id)
        promote == id = w.activeWindowId /\ Len(filtered) > 0
        topWindow == TopWindow(filtered)
        reset == Len(w.windows) = 1 /\ id = w.activeWindowId
    IN  [windows |-> IF promote
                     THEN Map(filtered, LAMBDA window :
                                  [window EXCEPT !.isActive = (window.id = topWindow.id)])
                     ELSE filtered,
         activeWindowId |-> IF promote /\ reset
                            THEN (IF eager THEN NullId ELSE topWindow.id)
                            ELSE IF promote THEN topWindow.id
                            ELSE IF reset THEN NullId
                            ELSE w.activeWindowId,
         highestZIndex |-> w.highestZIndex]

\* minimizeWindow as it would be if minimizing left the maximized mode
minimizeWindowUnmaximizing(w, id, targetPosition, thumbnailUrl) ==
    LET minimized == Map(w.windows, LAMBDA window :
            IF window.id = id
            THEN [window EXCEPT
                    !.isMinimized = TRUE,
                    !.isActive = FALSE,
                    !.isMaximized = FALSE,
                    !.thumbnail = OrNull(thumbnailUrl),
                    !.minimizeAnimation =
                        <<[startPosition |-> window.position,
                           targetPosition |->
                               IF targetPosition # None THEN targetPosition[1]
                               ELSE [x |-> window.position.x,
                                     y |-> window.position.y + MinimizeOffset]]>>]
            ELSE window)
        visibleWindows == SelectSeq(minimized, LAMBDA x : ~x.isMinimized /\ x.id # id)
        topWindow == TopWindow(visibleWindows)
    IN  IF Len(visibleWindows) > 0
        THEN [windows |-> Map(minimized, LAMBDA window :
                                  [window EXCEPT !.isActive = (window.id = topWindow.id)]),
              activeWindowId |-> topWindow.id,
              highestZIndex |-> w.highestZIndex]
        ELSE [windows |-> minimized,
              activeWindowId |-> NullId,
              highestZIndex |-> w.highestZIndex]

minimizeWindow(w, id, targetPosition, thumbnailUrl) ==
    LET minimized == Map(w.windows, LAMBDA window :
            IF window.id = id
            THEN [window EXCEPT
                    !.isMinimized = TRUE,
                    !.isActive = FALSE,
                    !.thumbnail = OrNull(thumbnailUrl),
                    !.minimizeAnimation =
                        <<[startPosition |-> window.position,
                           targetPosition |->
                               IF targetPosition # None THEN targetPosition[1]
                               ELSE [x |-> window.position.x,
                                     y |-> window.position.y + MinimizeOffset]]>>]
            ELSE window)
        visibleWindows == SelectSeq(minimized, LAMBDA x : ~x.isMinimized /\ x.id # id)
        topWindow == TopWindow(visibleWindows)
    IN  IF Len(visibleWindows) > 0
        THEN [windows |-> Map(minimized, LAMBDA window :
                                  [window EXCEPT !.isActive = (window.id = topWindow.id)]),
              activeWindowId |-> topWindow.id,
              highestZIndex |-> w.highestZIndex]
        ELSE [windows |-> minimized,
              activeWindowId |-> NullId,
              highestZIndex |-> w.highestZIndex]

\* const { minimizeAnimation, ...rest } = window
clearMinimizeAnimation(w, id) ==
    [w EXCEPT !.windows = Map(@, LAMBDA window :
        IF window.id = id THEN [window EXCEPT !.minimizeAnimation = None] ELSE window)]

\* activateWindow as it would be if it assigned highestZIndex again
activateWindowSameZIndex(w, id) ==
    LET newZIndex == w.highestZIndex
    IN  [windows |-> Map(w.windows, LAMBDA window :
                        IF window.id = id
                        THEN [window EXCEPT !.isActive = TRUE, !.zIndex = newZIndex,
                                            !.isMinimized = FALSE, !.thumbnail = Null]
                        ELSE [window EXCEPT !.isActive = FALSE]),
         activeWindowId |-> id,
         highestZIndex |-> newZIndex]

\* activateWindow as it would be if it left the thumbnail
activateWindowKeepingThumbnail(w, id) ==
    LET newZIndex == w.highestZIndex + 1
    IN  [windows |-> Map(w.windows, LAMBDA window :
                        IF window.id = id
                        THEN [window EXCEPT !.isActive = TRUE, !.zIndex = newZIndex,
                                            !.isMinimized = FALSE]
                        ELSE [window EXCEPT !.isActive = FALSE]),
         activeWindowId |-> id,
         highestZIndex |-> newZIndex]

activateWindow(w, id) ==
    LET newZIndex == w.highestZIndex + 1
    IN  [windows |-> Map(w.windows, LAMBDA window :
                        IF window.id = id
                        THEN [window EXCEPT !.isActive = TRUE, !.zIndex = newZIndex,
                                            !.isMinimized = FALSE, !.thumbnail = Null]
                        ELSE [window EXCEPT !.isActive = FALSE]),
         activeWindowId |-> id,
         highestZIndex |-> newZIndex]

\* restoreWindow as it would be without the call of activateWindow
restoreWindowOnly(w, id) ==
    [w EXCEPT !.windows = Map(@, LAMBDA window :
        IF window.id = id
        THEN [window EXCEPT !.isMinimized = FALSE, !.minimizeAnimation = None,
                            !.thumbnail = Null]
        ELSE window)]

restoreWindow(w, id) ==
    activateWindow(
        [w EXCEPT !.windows = Map(@, LAMBDA window :
            IF window.id = id
            THEN [window EXCEPT !.isMinimized = FALSE, !.minimizeAnimation = None,
                                !.thumbnail = Null]
            ELSE window)],
        id)

maximizeWindow(w, id) ==
    activateWindow(
        [w EXCEPT !.windows = Map(@, LAMBDA window :
            IF window.id = id
            THEN [window EXCEPT !.isMinimized = FALSE, !.minimizeAnimation = None,
                                !.thumbnail = Null]
            ELSE window)],
        id)

\* toggleMaximize as it would be if un-maximizing kept the current position
toggleMaximizeKeepingPosition(w, id, viewport) ==
    LET maxPosition ==
            [x |-> 0,
             y |-> MenuBarHeight,
             width |-> IF viewport # None THEN viewport[1].innerWidth
                       ELSE DefaultInnerWidth,
             height |-> (IF viewport # None THEN viewport[1].innerHeight
                         ELSE DefaultInnerHeight) - MenuBarHeight - DockHeight]
    IN  [w EXCEPT !.windows = Map(@, LAMBDA window :
            IF window.id # id THEN window
            ELSE IF window.isMaximized
            THEN [window EXCEPT
                    !.isMaximized = FALSE,
                    !.previousPosition = None]
            ELSE [window EXCEPT
                    !.isMaximized = TRUE,
                    !.previousPosition = <<window.position>>,
                    !.position = maxPosition])]

\* toggleMaximize as it would be if it also made the window the active one
toggleMaximizeActivating(w, id, viewport) ==
    LET maxPosition ==
            [x |-> 0,
             y |-> MenuBarHeight,
             width |-> IF viewport # None THEN viewport[1].innerWidth
                       ELSE DefaultInnerWidth,
             height |-> (IF viewport # None THEN viewport[1].innerHeight
                         ELSE DefaultInnerHeight) - MenuBarHeight - DockHeight]
    IN  [windows |-> Map(w.windows, LAMBDA window :
            IF window.id # id THEN [window EXCEPT !.isActive = FALSE]
            ELSE IF window.isMaximized
            THEN [window EXCEPT
                    !.isActive = TRUE,
                    !.isMaximized = FALSE,
                    !.position = IF window.previousPosition # None
                                 THEN window.previousPosition[1] ELSE window.position,
                    !.previousPosition = None]
            ELSE [window EXCEPT
                    !.isActive = TRUE,
                    !.isMaximized = TRUE,
                    !.previousPosition = <<window.position>>,
                    !.position = maxPosition]),
         activeWindowId |-> id,
         highestZIndex |-> w.highestZIndex]

\* viewport: globalThis.window's innerWidth and innerHeight, None without a
\* window object
toggleMaximize(w, id, viewport) ==
    LET maxPosition ==
            [x |-> 0,
             y |-> MenuBarHeight,
             width |-> IF viewport # None THEN viewport[1].innerWidth
                       ELSE DefaultInnerWidth,
             height |-> (IF viewport # None THEN viewport[1].innerHeight
                         ELSE DefaultInnerHeight) - MenuBarHeight - DockHeight]
    IN  [w EXCEPT !.windows = Map(@, LAMBDA window :
            IF window.id # id THEN window
            ELSE IF window.isMaximized
            THEN [window EXCEPT
                    !.isMaximized = FALSE,
                    !.position = IF window.previousPosition # None
                                 THEN window.previousPosition[1] ELSE window.position,
                    !.previousPosition = None]
            ELSE [window EXCEPT
                    !.isMaximized = TRUE,
                    !.previousPosition = <<window.position>>,
                    !.position = maxPosition])]

updateWindowPosition(w, id, position) ==
    [w EXCEPT !.windows = Map(@, LAMBDA window :
        IF window.id = id
        THEN [window EXCEPT !.position = Merge(window.position, position)]
        ELSE window)]

\* updateWindowSize as it would be without the minimum width and height
updateWindowSizeUnfloored(w, id, size) ==
    [w EXCEPT !.windows = Map(@, LAMBDA window :
        IF window.id = id
        THEN [window EXCEPT !.position =
                 Merge(window.position, [width |-> size.width, height |-> size.height])]
        ELSE window)]

updateWindowSize(w, id, size) ==
    [w EXCEPT !.windows = Map(@, LAMBDA window :
        IF window.id = id
        THEN [window EXCEPT !.position =
                 Merge(window.position, [width |-> Max(MinWidth, size.width),
                                         height |-> Max(MinHeight, size.height)])]
        ELSE window)]

----------------------------------------------------------------------------
(* WindowProvider: one applied call per step *)

InitWM ==
    /\ windows = <<>>
    /\ activeWindowId = NullId
    /\ highestZIndex = 0
    /\ nextWinId = 1
    /\ assigned = {}
    /\ premax = <<>>

\* the place of window id in ws, 0 if it is not open
IndexOf(ws, id) ==
    IF \E i \in DOMAIN ws : ws[i].id = id
    THEN CHOOSE i \in DOMAIN ws : ws[i].id = id
    ELSE 0

\* the ids of the windows of ws that are maximized
MaximizedIds(ws) == {ws[i].id : i \in {j \in DOMAIN ws : ws[j].isMaximized}}

Current == [windows |-> windows, activeWindowId |-> activeWindowId,
            highestZIndex |-> highestZIndex]

\* the component renders with the state the call left
RenderWindows(w) ==
    /\ windows' = w.windows
    /\ activeWindowId' = w.activeWindowId
    /\ highestZIndex' = w.highestZIndex
    /\ assigned' = IF w.highestZIndex # highestZIndex
                   THEN assigned \cup {w.highestZIndex} ELSE assigned
    /\ premax' = [id \in MaximizedIds(w.windows) |->
                     IF id \in DOMAIN premax THEN premax[id]
                     ELSE windows[IndexOf(windows, id)].position]
    /\ UNCHANGED fsVars

\* a call of the window manager leaves the dialogs alone
Render(w) == RenderWindows(w) /\ UNCHANGED uiVars

OpenWindowCall(params) ==
    /\ highestZIndex < MaxZ
    /\ Render(openWindow(Current, params, nextWinId))
    /\ nextWinId' = nextWinId + 1

OpenWindowUpTo(max) ==
    /\ nextWinId <= max
    /\ \E position \in PositionInputs : OpenWindowCall([position |-> position])

OpenWindow == OpenWindowUpTo(MaxWindows)

CloseWindowCall(id) ==
    /\ \E eager \in BOOLEAN : Render(closeWindow(Current, id, eager))
    /\ UNCHANGED nextWinId

CloseWindow == \E id \in Issued : CloseWindowCall(id)

MinimizeWindowCall(id, targetPosition, thumbnailUrl) ==
    /\ Render(minimizeWindow(Current, id, targetPosition, thumbnailUrl))
    /\ UNCHANGED nextWinId

MinimizeWindow ==
    \E id \in Issued, targetPosition \in TargetPositionInputs,
       thumbnailUrl \in ThumbnailInputs :
        MinimizeWindowCall(id, targetPosition, thumbnailUrl)

ClearMinimizeAnimation ==
    /\ \E id \in Issued : Render(clearMinimizeAnimation(Current, id))
    /\ UNCHANGED nextWinId

ActivateWindowCall(id) ==
    /\ highestZIndex < MaxZ
    /\ Render(activateWindow(Current, id))
    /\ UNCHANGED nextWinId

ActivateWindow == \E id \in Issued : ActivateWindowCall(id)

RestoreWindow ==
    /\ highestZIndex < MaxZ
    /\ \E id \in Issued : Render(restoreWindow(Current, id))
    /\ UNCHANGED nextWinId

MaximizeWindow ==
    /\ highestZIndex < MaxZ
    /\ \E id \in Issued : Render(maximizeWindow(Current, id))
    /\ UNCHANGED nextWinId

ToggleMaximize ==
    /\ \E id \in Issued, viewport \in ViewportInputs :
         Render(toggleMaximize(Current, id, viewport))
    /\ UNCHANGED nextWinId

UpdateWindowPosition ==
    /\ \E id \in Issued, position \in PartialPositionInputs :
         Render(updateWindowPosition(Current, id, position))
    /\ UNCHANGED nextWinId

UpdateWindowSize ==
    /\ \E id \in Issued, size \in SizeInputs :
         Render(updateWindowSize(Current, id, size))
    /\ UNCHANGED nextWinId

NextWM ==
    \/ OpenWindow
    \/ CloseWindow
    \/ MinimizeWindow
    \/ ClearMinimizeAnimation
    \/ ActivateWindow
    \/ RestoreWindow
    \/ MaximizeWindow
    \/ ToggleMaximize
    \/ UpdateWindowPosition
    \/ UpdateWindowSize

----------------------------------------------------------------------------
(* Specifications *)

\* DialogProvider: useState<string | null>(null)
InitUI == errorDialogMessage = None

Init == InitFS /\ InitWM /\ InitUI

\* the storage call of a call that throws: deleteEntity issues at most four
\* storage calls per entity, every other call at most five
FaultAt == 1..(4 * MaxIds)

DeleteEntityFault == \E f \in FaultAt : DeleteEntity(f)

NextFault ==
    \/ NextFS
    \/ DeleteEntityFault

\* the file-system service when a storage call of a deleteEntity may throw
SpecFault == Init /\ [][NextFault]_vars

\* the service when directories and files are created and looked up by path,
\* and one storage call of a look-up or of initialize may throw
PathInputs ==
    { <<"/">>, <<"/", "a">>, <<"/", "a", "/", "a">>, <<"a", "/">> }

GetEntityByPath(f) ==
    /\ ~fsHung
    /\ \E path \in PathInputs :
         Return(getEntityByPathIn(Begin(f), initialized, path)[1], "getEntityByPath")
    /\ UNCHANGED <<initialized, nextId>>

ListDirectoryByPath(f) ==
    /\ ~fsHung
    /\ \E path \in PathInputs :
         Return(listDirectoryByPath(Begin(f), initialized, path)[1], "listDirectoryByPath")
    /\ UNCHANGED <<initialized, nextId>>

GetPath(f) ==
    /\ Ready
    /\ \E entityId \in Ids :
         Return(getPathIn(Begin(f), entityId, Cardinality(DOMAIN store) + 1)[1], "getPath")
    /\ UNCHANGED <<initialized, nextId>>

ReadFaultAt == 0..(MaxIds + 1)

NextRead ==
    \/ \E f \in ReadFaultAt : Initialize(f)
    \/ CreateDirectory(0)
    \/ CreateFile(0)
    \/ \E f \in ReadFaultAt : GetEntityByPath(f)
    \/ \E f \in ReadFaultAt : ListDirectoryByPath(f)
    \/ \E f \in ReadFaultAt : GetPath(f)

SpecRead == Init /\ [][NextRead]_vars

\* the service on a database that holds nothing: no entity, no saved
\* aggregate.  One storage call of initialize may throw; the tree is then
\* read by path.
InitEmpty ==
    /\ store = <<>>
    /\ saved = NoState
    /\ mem = EmptyState
    /\ initialized = FALSE
    /\ nextId = 1
    /\ fsHung = FALSE
    /\ faults = 0
    /\ last = NoCall
    /\ calls = NoCalls
    /\ windows = <<>>
    /\ activeWindowId = NullId
    /\ highestZIndex = 0
    /\ nextWinId = 1
    /\ assigned = {}
    /\ premax = <<>>
    /\ errorDialogMessage = None

InitFaultAt == 0..MaxInitFault

NextEmpty ==
    \/ \E f \in InitFaultAt : Initialize(f)
    \/ GetEntityByPath(0)
    \/ ListDirectoryByPath(0)
    \/ GetPath(0)
    \/ DeleteEntity(0)

SpecEmpty == InitEmpty /\ [][NextEmpty]_vars

\* the service when links and directories are created and links are updated
\* with every shape of updates object: fields left out, passed as undefined,
\* or passed with a value
LinkUpdateInputs ==
    [name : NameInputs \cup {NameNotGiven, NameUndefined},
     targetType : {NotGiven, Undefined, "url"},
     target : {NotGiven, Undefined, "u"}]

UpdateLinkCall(f, linkId, updates) ==
    /\ Ready
    /\ Return(updateLink(Begin(f), linkId, updates), "updateLink")
    /\ UNCHANGED <<initialized, nextId>>

UpdateLinkWith ==
    \E linkId \in Ids, updates \in LinkUpdateInputs : UpdateLinkCall(0, linkId, updates)

NextLink ==
    \/ Initialize(0)
    \/ CreateDirectory(0)
    \/ CreateLink(0)
    \/ UpdateLinkWith

SpecLink == Init /\ [][NextLink]_vars

\* the service when one more entity may be created, so that a directory can
\* hold a child next to a sibling of its own; links are renamed and updated
CreateDirectoryPath ==
    /\ Ready
    /\ \E name \in NameInputs, parentId \in 1..MaxPathIds :
         LET r == createDirectory(Begin(0), name, parentId, nextId)
         IN  /\ nextId \in DOMAIN r.store => nextId <= MaxPathIds
             /\ Return(r, "createDirectory")
             /\ nextId' = Drawn(r)
    /\ UNCHANGED initialized

CreateFilePath ==
    /\ Ready
    /\ \E name \in NameInputs, parentId \in 1..MaxPathIds, content \in ContentInputs :
         LET r == createFile(Begin(0), name, parentId, content, nextId)
         IN  /\ nextId \in DOMAIN r.store => nextId <= MaxPathIds
             /\ Return(r, "createFile")
             /\ nextId' = Drawn(r)
    /\ UNCHANGED initialized

CreateLinkPath ==
    /\ Ready
    /\ \E name \in NameInputs, parentId \in 1..MaxPathIds,
          targetType \in LinkTargetTypes, target \in TargetInputs :
         LET r == createLink(Begin(0), name, parentId, targetType, target, nextId)
         IN  /\ nextId \in DOMAIN r.store => nextId <= MaxPathIds
             /\ Return(r, "createLink")
             /\ nextId' = Drawn(r)
    /\ UNCHANGED initialized

NextPath ==
    \/ Initialize(0)
    \/ CreateDirectoryPath
    \/ CreateFilePath
    \/ CreateLinkPath
    \/ RenameEntity(0)
    \/ UpdateLink(0)

SpecPath == Init /\ [][NextPath]_vars

\* the service when directories and files are created and their metadata is
\* patched
MetadataPatchInputs ==
    { {}, {<<"x", 1>>}, {<<"x", 2>>}, {<<"y", 1>>}, {<<"x", 2>>, <<"y", 2>>} }

UpdateEntityMetadataCall(f, entityId, metadataUpdates) ==
    /\ Ready
    /\ Return(updateEntityMetadata(Begin(f), entityId, metadataUpdates),
              "updateEntityMetadata")
    /\ UNCHANGED <<initialized, nextId>>

UpdateEntityMetadataWith ==
    \E entityId \in Ids, metadataUpdates \in MetadataPatchInputs :
        UpdateEntityMetadataCall(0, entityId, metadataUpdates)

NextMeta ==
    \/ Initialize(0)
    \/ CreateDirectory(0)
    \/ CreateFile(0)
    \/ UpdateEntityMetadataWith

SpecMeta == Init /\ [][NextMeta]_vars

\* the file-system service
Spec == Init /\ [][NextFS]_vars

\* the window manager
SpecWM == Init /\ [][NextWM]_vars

\* the window manager when windows are only opened, minimized and closed
NextStack ==
    \/ OpenWindowUpTo(MaxStack)
    \/ CloseWindow
    \/ MinimizeWindow

SpecStack == Init /\ [][NextStack]_vars

\* the window manager when windows are opened, closed, maximized, moved and
\* resized, with more positions and sizes
GeomPositionInputs == { [x |-> 10, y |-> 40, width |-> 300, height |-> 250] }
GeomPartialPositionInputs == { [x |-> 70], [x |-> 20, y |-> 90] }
GeomSizeInputs ==
    { [width |-> 0, height |-> -10], [width |-> 250, height |-> 99],
      [width |-> 400, height |-> 300] }

OpenWindowGeom ==
    /\ nextWinId <= MaxGeom
    /\ \E position \in GeomPositionInputs : OpenWindowCall([position |-> position])

UpdateWindowPositionCall(id, position) ==
    /\ Render(updateWindowPosition(Current, id, position))
    /\ UNCHANGED nextWinId

UpdateWindowSizeCall(id, size) ==
    /\ Render(updateWindowSize(Current, id, size))
    /\ UNCHANGED nextWinId

ToggleMaximizeCall(id, viewport) ==
    /\ Render(toggleMaximize(Current, id, viewport))
    /\ UNCHANGED nextWinId

UpdateWindowPositionGeom ==
    \E id \in Issued, position \in GeomPartialPositionInputs :
        UpdateWindowPositionCall(id, position)

UpdateWindowSizeGeom ==
    \E id \in Issued, size \in GeomSizeInputs : UpdateWindowSizeCall(id, size)

NextGeom ==
    \/ OpenWindowGeom
    \/ CloseWindow
    \/ ToggleMaximize
    \/ UpdateWindowPositionGeom
    \/ UpdateWindowSizeGeom

SpecGeom == Init /\ [][NextGeom]_vars

----------------------------------------------------------------------------
(* Notions the claims are stated in *)

\* the entities with the same parentId as entity id, other than id
SiblingsOf(entities, id) ==
    {j \in DOMAIN entities : j # id /\ entities[j].parentId = entities[id].parentId}

\* the entities whose parentId is parentId
ChildrenOf(entities, parentId) ==
    {j \in DOMAIN entities : entities[j].parentId = parentId}

\* id, its parent, its parent's parent, ... : at most k steps up
RECURSIVE Chain(_, _, _)
Chain(entities, id, k) ==
    IF id \notin DOMAIN entities \/ k = 0 THEN {}
    ELSE {id} \cup Chain(entities, entities[id].parentId, k - 1)

\* the entities that have a among the entities above them
DescendantsOf(entities, a) ==
    {j \in DOMAIN entities :
        a \in Chain(entities, entities[j].parentId, Cardinality(DOMAIN entities))}

\* the root: the entity mem.rootId names, if it is stored with parentId null
HasRoot ==
    /\ initialized
    /\ mem.rootId \in DOMAIN store
    /\ store[mem.rootId].parentId = NullId

\* C1. Sibling uniqueness: no two stored entities with the same parentId
\* have the same name.
C1_SiblingUniqueness ==
    \A i, j \in DOMAIN store :
        (i # j /\ store[i].parentId = store[j].parentId) => store[i].name # store[j].name

\* a create under parentId with this name is to be rejected
C2_Rejects(parentId, name) ==
    \/ parentId \notin DOMAIN store
    \/ store[parentId].type # "directory"
    \/ \E j \in ChildrenOf(store, parentId) : store[j].name = name

C2_Rejected ==
    /\ last'.success = FALSE
    /\ store' = store
    /\ mem' = mem
    /\ saved' = saved

C2_Step ==
    /\ \A name \in NameInputs, parentId \in Ids :
        C2_Rejects(parentId, name) =>
            /\ CreateDirectoryCall(0, name, parentId) => C2_Rejected
            /\ \A content \in ContentInputs :
                 CreateFileCall(0, name, parentId, content) => C2_Rejected
    /\ \A entityId \in DOMAIN store, newName \in NameInputs :
        (\E j \in SiblingsOf(store, entityId) : store[j].name = newName) =>
            (RenameEntityCall(0, entityId, newName) => C2_Rejected)

\* C2. A createDirectory or createFile whose parent is missing or no
\* directory, or whose name is the name of an entity under that parent, and
\* a renameEntity to the name of another sibling, returns success = false
\* and leaves the object store, this.state and the saved state as they were.
C2_RejectedCallChangesNothing == [][C2_Step]_vars

\* a createDirectory or a renameEntity was rejected for a name collision
\* while three entities are stored
C2_Witness ==
    /\ last.op \in {"createDirectory", "renameEntity"}
    /\ last.success = FALSE
    /\ last.error = "already exists"
    /\ Cardinality(DOMAIN store) >= 3

\* C3. Path round trip: for every entity E below the root (or the root),
\* getEntityByPath(getPath(E.id)) is E.
C3_PathRoundTrip ==
    HasRoot =>
        \A id \in DescendantsOf(store, mem.rootId) \cup {mem.rootId} :
            getEntityByPath(store, initialized, mem.rootId,
                            getPath(store, id, Cardinality(DOMAIN store) + 1)) = id

\* the position of id in the order of removal, 0 if it was not removed
Removed(log, id) ==
    IF \E k \in DOMAIN log : log[k] = id
    THEN CHOOSE k \in DOMAIN log : log[k] = id
    ELSE 0

\* what a step that is a successful deleteEntity(D) of a directory D does
C4_Step ==
    \A f \in {0} \cup FaultAt, D \in DOMAIN store :
        (/\ store[D].type = "directory"
         /\ DeleteEntityCall(f, D)
         /\ last'.op = "deleteEntity"
         /\ last'.success) =>
            /\ D \notin DOMAIN store'
            /\ \A d \in DescendantsOf(store, D) :
                /\ d \notin DOMAIN store'
                /\ Removed(last'.log, d) # 0
                /\ Removed(last'.log, d) < Removed(last'.log, D)

\* C4. Recursive delete: when deleteEntity(D) returns success for a
\* directory D, D and every entity that was below D before the call are gone
\* from the object store, and each of them was removed before D was.
C4_RecursiveDelete == [][C4_Step]_vars

\* C5. Root immutability: once initialized, exactly one entity has
\* parentId null, it is the one rootId names, and its name is unchanged.
C5_RootImmutable ==
    initialized =>
        /\ {i \in DOMAIN store : store[i].parentId = NullId} = {mem.rootId}
        /\ store[mem.rootId].name = <<"/">>

\* C6. No cycles: following parentId from any entity reaches the root
\* without visiting any entity twice.
C6_NoCycles ==
    \A id \in DOMAIN store :
        \E r \in Chain(store, id, Cardinality(DOMAIN store)) : store[r].parentId = NullId

\* the ids of the windows with isActive = true
ActiveIds(ws) == {ws[i].id : i \in {j \in DOMAIN ws : ws[j].isActive}}

\* the windows that are not minimized, id aside
VisibleOthers(ws, id) == SelectSeq(ws, LAMBDA x : ~x.isMinimized /\ x.id # id)

\* C7. At most one active: the number of windows with isActive = true is
\* 0 or 1 in every state the window-manager calls reach.
C7_AtMostOneActive ==
    Cardinality({i \in DOMAIN windows : windows[i].isActive}) <= 1

\* two windows are open, the one opened first was activated later and is
\* the one active window
C7_Witness ==
    /\ Len(windows) = 2
    /\ windows[1].zIndex > windows[2].zIndex
    /\ ActiveIds(windows) = {windows[1].id}

\* the zIndex the step gave window id is new and the highest visible
C8_Assigned(id) ==
    LET i == IndexOf(windows', id)
    IN  i # 0 =>
            /\ \A z \in assigned : windows'[i].zIndex > z
            /\ windows'[i].zIndex \in assigned'
            /\ ~windows'[i].isMinimized
            /\ \A j \in DOMAIN windows' :
                 (j # i /\ ~windows'[j].isMinimized) => windows'[j].zIndex < windows'[i].zIndex

C8_Step ==
    /\ \A position \in PositionInputs :
         OpenWindowCall([position |-> position]) =>
             (IndexOf(windows', nextWinId) # 0 /\ C8_Assigned(nextWinId))
    /\ \A id \in Issued : ActivateWindowCall(id) => C8_Assigned(id)

\* C8. Window z-order monotonicity: the zIndex an openWindow or an
\* activateWindow call assigns is greater than every zIndex assigned before,
\* and right after the call the window opened or activated has the highest
\* zIndex of the windows that are not minimized.
C8_ZOrderMonotonic == [][C8_Step]_vars

\* a minimized window was activated while a window opened later is visible:
\* it carries the highest zIndex, MaxZ, and its animation data still
C8_Witness ==
    /\ Len(windows) = 2
    /\ windows[1].zIndex = MaxZ
    /\ windows[1].minimizeAnimation # None
    /\ ~windows[1].isMinimized
    /\ ~windows[2].isMinimized

\* what a step that closes the active window does
C9_Step ==
    \A id \in Issued :
        (/\ CloseWindowCall(id)
         /\ id = activeWindowId
         /\ IndexOf(windows, id) # 0
         /\ windows[IndexOf(windows, id)].isActive) =>
            LET visible == VisibleOthers(windows, id)
            IN  IF visible # <<>>
                THEN /\ activeWindowId' = TopWindow(visible).id
                     /\ ActiveIds(windows') = {TopWindow(visible).id}
                ELSE /\ activeWindowId' = NullId
                     /\ ActiveIds(windows') = {}
                     /\ \A i \in DOMAIN windows' : windows'[i].isMinimized

\* C9. closeWindow promotion: when closeWindow(id) removes the active
\* window, the window of the highest zIndex among the remaining windows that
\* are not minimized becomes the active one; when none remains, no window is
\* active and every minimized window stays minimized and inactive.
C9_CloseWindowPromotion == [][C9_Step]_vars

\* what a step that minimizes an open window does
C10_Step ==
    \A id \in Issued, targetPosition \in TargetPositionInputs,
       thumbnailUrl \in ThumbnailInputs :
        (MinimizeWindowCall(id, targetPosition, thumbnailUrl) /\ IndexOf(windows, id) # 0) =>
            LET i == IndexOf(windows, id)
                visible == VisibleOthers(windows, id)
            IN  /\ IndexOf(windows', id) = i
                /\ windows'[i].isMinimized
                /\ ~windows'[i].isActive
                /\ windows'[i].minimizeAnimation # None
                /\ windows'[i].minimizeAnimation[1].startPosition = windows[i].position
                /\ windows'[i].minimizeAnimation[1].targetPosition =
                       IF targetPosition # None THEN targetPosition[1]
                       ELSE [x |-> windows[i].position.x,
                             y |-> windows[i].position.y + MinimizeOffset]
                /\ thumbnailUrl = NotGiven => windows'[i].thumbnail = Null
                /\ thumbnailUrl \notin {NotGiven, ""} => windows'[i].thumbnail = thumbnailUrl
                /\ ActiveIds(windows') =
                       IF visible # <<>> THEN {TopWindow(visible).id} ELSE {}

\* C10. minimizeWindow effect: after minimizeWindow(id, targetPosition?,
\* thumbnail?) on an open window, the window is minimized and inactive, its
\* minimizeAnimation starts at the position it had and ends at the supplied
\* target or else MinimizeOffset below that position, its thumbnail is the
\* supplied one (null when none is supplied), and the window of the highest
\* zIndex among the others that are not minimized, if there is one, is the
\* only active window; otherwise no window is active.
C10_MinimizeWindowEffect == [][C10_Step]_vars

\* a window was minimized while another window, minimized too, is active
C10_Witness ==
    \E i, j \in DOMAIN windows :
        /\ i # j
        /\ windows[i].isMinimized /\ windows[i].minimizeAnimation # None
        /\ windows[j].isMinimized /\ windows[j].isActive

\* a window was closed and a minimized window is the active one
C9_Witness ==
    /\ Len(windows) < nextWinId - 1
    /\ \E i \in DOMAIN windows : windows[i].isMinimized /\ windows[i].isActive

\* the window-manager state is as it was
WMUnchanged == UNCHANGED <<windows, activeWindowId, highestZIndex>>

\* what a step that is a call with an id no open window has does
C11_Step ==
    \A id \in Issued :
        IndexOf(windows, id) = 0 =>
            /\ CloseWindowCall(id) => WMUnchanged
            /\ ActivateWindowCall(id) => WMUnchanged
            /\ \A targetPosition \in TargetPositionInputs, thumbnailUrl \in ThumbnailInputs :
                 MinimizeWindowCall(id, targetPosition, thumbnailUrl) => WMUnchanged
            /\ Render(restoreWindow(Current, id)) => WMUnchanged
            /\ Render(maximizeWindow(Current, id)) => WMUnchanged
            /\ \A viewport \in ViewportInputs :
                 Render(toggleMaximize(Current, id, viewport)) => WMUnchanged
            /\ \A position \in PartialPositionInputs :
                 Render(updateWindowPosition(Current, id, position)) => WMUnchanged
            /\ \A size \in SizeInputs :
                 Render(updateWindowSize(Current, id, size)) => WMUnchanged
            /\ Render(clearMinimizeAnimation(Current, id)) => WMUnchanged

\* C11. Operations on an unknown window id are no-ops: closeWindow,
\* activateWindow, minimizeWindow, restoreWindow, maximizeWindow,
\* toggleMaximize, updateWindowPosition, updateWindowSize and
\* clearMinimizeAnimation, called with an id that no open window has, leave
\* windows, activeWindowId and highestZIndex as they were.
C11_UnknownIdNoOp == [][C11_Step]_vars

\* a call with the id of a closed window was applied while a window is open:
\* no window is active and activeWindowId is the closed window's id
C11_Witness ==
    /\ Len(windows) = 1
    /\ activeWindowId # NullId
    /\ IndexOf(windows, activeWindowId) = 0
    /\ ActiveIds(windows) = {}

\* what a step that is an openWindow call does
C12_Step ==
    \A position \in PositionInputs :
        OpenWindowCall([position |-> position]) =>
            /\ IndexOf(windows, nextWinId) = 0
            /\ Len(windows') = Len(windows) + 1
            /\ \A i \in DOMAIN windows :
                 windows'[i] = [windows[i] EXCEPT !.isActive = FALSE]
            /\ LET new == windows'[Len(windows')]
               IN  /\ new.id = nextWinId
                   /\ new.position = position
                   /\ new.isActive
                   /\ ~new.isMinimized
                   /\ ~new.isMaximized
                   /\ \A i \in DOMAIN windows : new.zIndex > windows[i].zIndex
            /\ activeWindowId' = nextWinId

C13_Step ==
    \A id \in Issued :
        (/\ Render(restoreWindow(Current, id))
         /\ IndexOf(windows, id) # 0
         /\ windows[IndexOf(windows, id)].isMinimized) =>
            LET i == IndexOf(windows, id)
                activated == activateWindow(Current, id)
            IN  /\ IndexOf(windows', id) = i
                /\ ~windows'[i].isMinimized
                /\ windows'[i].minimizeAnimation = None
                /\ windows'[i].thumbnail = Null
                /\ windows'[i].isActive
                /\ \A j \in DOMAIN windows' :
                     j # i => /\ windows'[j].zIndex < windows'[i].zIndex
                              /\ ~windows'[j].isActive
                /\ windows' = [activated.windows EXCEPT ![i].minimizeAnimation = None]
                /\ activeWindowId' = activated.activeWindowId
                /\ highestZIndex' = activated.highestZIndex

\* C13. restoreWindow: after restoreWindow(id) on an open, minimized window
\* the window is not minimized, has no minimizeAnimation and no thumbnail,
\* is active and has a zIndex above every other window's; every other window
\* is inactive; the state is the one activateWindow(id) gives, the
\* minimizeAnimation of the window cleared.
C13_RestoreWindow == [][C13_Step]_vars

\* the state restoreWindow leaves when the window opened first is restored
\* from minimized while the window opened second is minimized too
C13_Witness ==
    /\ Len(windows) = 2
    /\ windows[1].isActive
    /\ ~windows[1].isMinimized
    /\ windows[1].minimizeAnimation = None
    /\ windows[1].zIndex = 3
    /\ highestZIndex = 3
    /\ windows[2].isMinimized
    /\ windows[2].thumbnail # Null

\* toggleMaximize(id) on an open window in SpecGeom
C14_Step ==
    \A id \in Issued, viewport \in ViewportInputs :
        (ToggleMaximizeCall(id, viewport) /\ IndexOf(windows, id) # 0) =>
            LET old == windows[IndexOf(windows, id)]
                new == windows'[IndexOf(windows', id)]
            IN  IF ~old.isMaximized
                THEN /\ new.isMaximized
                     /\ new.previousPosition = <<old.position>>
                ELSE /\ ~new.isMaximized
                     /\ new.position = premax[id]
                     /\ new.previousPosition = None

\* C14. toggleMaximize on a window that is not maximized sets isMaximized and
\* stores the position before the call in previousPosition; the next
\* toggleMaximize on it, whatever updateWindowPosition and updateWindowSize
\* calls came in between, clears isMaximized, puts position back to exactly
\* the position before it was maximized and leaves previousPosition absent.
C14_ToggleMaximizeRoundTrip == [][C14_Step]_vars

\* a maximized window that was moved and resized before it was maximized and
\* again while it is maximized
C14_Witness ==
    \E i \in DOMAIN windows :
        /\ windows[i].isMaximized
        /\ windows[i].id \in DOMAIN premax
        /\ premax[windows[i].id] \notin GeomPositionInputs
        /\ windows[i].previousPosition = <<premax[windows[i].id]>>
        /\ windows[i].position.x # 0
        /\ windows[i].position.width # DefaultInnerWidth

\* toggleMaximize(id), for an open window and for any other id
C15_Step ==
    \A id \in Issued, viewport \in ViewportInputs :
        ToggleMaximizeCall(id, viewport) =>
            /\ activeWindowId' = activeWindowId
            /\ highestZIndex' = highestZIndex
            /\ Len(windows') = Len(windows)
            /\ \A i \in DOMAIN windows :
                 IF windows[i].id = id
                 THEN windows'[i] =
                        [windows[i] EXCEPT
                            !.position = windows'[i].position,
                            !.previousPosition = windows'[i].previousPosition,
                            !.isMaximized = windows'[i].isMaximized]
                 ELSE windows'[i] = windows[i]

\* C15. toggleMaximize(id) changes only position, previousPosition and
\* isMaximized of window id: isActive, isMinimized and zIndex of every window,
\* the active window id, the highest zIndex handed out and every field of
\* every other window stay as they were.
C15_ToggleMaximizeFrame == [][C15_Step]_vars

\* a maximized window that is not the active one, next to an active window
C15_Witness ==
    \E i, j \in DOMAIN windows :
        /\ windows[i].isMaximized
        /\ ~windows[i].isActive
        /\ windows[i].previousPosition # None
        /\ windows[j].isActive
        /\ activeWindowId = windows[j].id
        /\ windows[j].zIndex > windows[i].zIndex

\* C16. No operation of the service throws: when a storage call fails with an
\* exception, getEntityByPath, listDirectoryByPath, getPath and initialize
\* still return (a failure result, or a not-found or empty value).
C16_NoExceptionEscapes == last.error # Thrown

\* a storage call threw inside getPath or initialize and the call returned
C16_Witness ==
    /\ faults = 1
    /\ last.op \in {"getPath", "initialize"}
    /\ last.error # Thrown

\* the operations of the service that write
MutatingOps ==
    {"createDirectory", "createFile", "createLink", "updateLink", "updateFileContent",
     "renameEntity", "deleteEntity", "moveEntity", "updateEntityMetadata"}

\* a call of a writing operation that returned success = false
C17_Step ==
    (last'.op \in MutatingOps /\ ~last'.success) =>
        (store' = store /\ saved' = saved)

\* C17. All or nothing per call: when a writing operation returns
\* success = false, from a validation failure or from a storage call that
\* failed at any point of it, the entity store and the persisted aggregate
\* state are exactly as before the call.
C17_AllOrNothing == [][C17_Step]_vars

\* a writing operation returned success = false after a storage call threw
C17_Witness ==
    /\ last.op \in MutatingOps
    /\ ~last.success
    /\ faults = 1

\* initialize() called when an earlier initialize() has returned success
C18_Step ==
    (initialized /\ last'.op = "initialize") =>
        /\ last'.success
        /\ initialize(Begin(0), initialized, nextId).n = 0
        /\ store' = store
        /\ saved' = saved
        /\ mem' = mem
        /\ initialized'

\* C18. initialize is idempotent: once an initialize() has returned success,
\* a later initialize() returns success, issues no storage call and leaves
\* the entity store, the persisted aggregate state and the in-memory state
\* as they were.
C18_InitializeIdempotent == [][C18_Step]_vars

\* initialize() returned again after entities were created
C18_Witness ==
    /\ last.op = "initialize"
    /\ initialized
    /\ Cardinality(DOMAIN store) > 1
    /\ DOMAIN mem.entities # DOMAIN store

\* the directories named name under parentId
DirsNamed(entities, parentId, name) ==
    {id \in DOMAIN entities :
        /\ entities[id].type = "directory"
        /\ entities[id].parentId = parentId
        /\ entities[id].name = name}

\* the links to application app in directory dir
AppLinksIn(entities, dir, app) ==
    {id \in DOMAIN entities :
        /\ entities[id].type = "link"
        /\ entities[id].parentId = dir
        /\ entities[id].targetType = "application"
        /\ entities[id].target = app.id}

\* one root; Users, Applications and System under it; User under Users;
\* Documents, Desktop, Downloads and Pictures under User; one link per
\* application in Applications and in Desktop
HoldsDefaultTree(entities) ==
    /\ Cardinality({id \in DOMAIN entities : entities[id].parentId = NullId}) = 1
    /\ \E root \in DOMAIN entities :
         /\ entities[root].parentId = NullId
         /\ entities[root].type = "directory"
         /\ DirsNamed(entities, root, <<"System">>) # {}
         /\ \E users \in DirsNamed(entities, root, <<"Users">>),
               applications \in DirsNamed(entities, root, <<"Applications">>) :
              \E user \in DirsNamed(entities, users, <<"User">>) :
                 /\ DirsNamed(entities, user, <<"Documents">>) # {}
                 /\ DirsNamed(entities, user, <<"Downloads">>) # {}
                 /\ DirsNamed(entities, user, <<"Pictures">>) # {}
                 /\ \E desktop \in DirsNamed(entities, user, <<"Desktop">>) :
                      \A k \in DOMAIN DEFAULT_APPS :
                         /\ Cardinality(AppLinksIn(entities, applications, DEFAULT_APPS[k])) = 1
                         /\ Cardinality(AppLinksIn(entities, desktop, DEFAULT_APPS[k])) = 1

\* initialize() returned success on an empty store: no entity, no saved
\* aggregate
C19_Step ==
    (store = <<>> /\ saved = NoState /\ last'.op = "initialize" /\ last'.success) =>
        HoldsDefaultTree(store')

\* C19 as stated.  After initialize() succeeds on an empty store, the store
\* holds the default tree: one root with Users, Applications and System,
\* User under Users, Documents, Desktop, Downloads and Pictures under User,
\* and in /Applications and in /Users/User/Desktop exactly one application
\* link per registered application.
C19_DefaultTreeAfterAnySuccess == [][C19_Step]_vars

\* ... and none of its storage calls threw
C19_StepNoFault ==
    (store = <<>> /\ saved = NoState /\ last'.op = "initialize" /\ last'.success /\ faults' = faults) =>
        HoldsDefaultTree(store')

\* C19 when no storage call fails: after initialize() succeeds on an empty
\* store with none of its storage calls throwing, the store holds the
\* default tree.
C19_DefaultTree == [][C19_StepNoFault]_vars

\* initialize() has built the tree on the empty store
C19_Witness ==
    /\ last.op = "initialize"
    /\ last.success
    /\ faults = 0
    /\ Cardinality(DOMAIN store) = 1 + Len(DefaultTree)
    /\ HoldsDefaultTree(store)

\* C20. The aggregate state is the full entity lookup: after every successful
\* operation of the service, createLink, updateLink and updateEntityMetadata
\* included, the entities of the aggregate state, in memory and as last
\* persisted, are exactly the entities of the entity store with the same
\* field values.
C20_AggregateIsEntityStore ==
    (initialized /\ last.success /\ last.op \in MutatingOps \cup {"initialize"}) =>
        (mem.entities = store /\ saved.entities = store)

\* a successful createDirectory after which the aggregate is the store
C20_Witness ==
    /\ initialized
    /\ last.success
    /\ last.op = "createDirectory"
    /\ mem.entities = store
    /\ saved.entities = store

\* C21. Link suffix invariant: in every state reached by createLink,
\* updateLink and renameEntity calls with any names, every entity of type
\* link has a name that ends with ".lnk".
C21_LinkSuffix ==
    \A id \in DOMAIN store :
        store[id].type = "link" => EndsWith(store[id].name, LnkSuffix)

\* a link that createLink stored under a name given without the suffix
C21_Witness ==
    /\ last.op = "createLink"
    /\ last.success
    /\ \E id \in DOMAIN store :
         /\ store[id].type = "link"
         /\ store[id].name = <<"a">> \o LnkSuffix

\* the caller supplied the field: it is in the updates object with a value
Supplied(v) == v \notin {NotGiven, Undefined}
SuppliedName(name) == name \notin {NameNotGiven, NameUndefined}

\* updateLink(linkId, updates) returned success
C22_Step ==
    \A linkId \in Ids, updates \in LinkUpdateInputs :
        (UpdateLinkCall(0, linkId, updates) /\ last'.success) =>
            LET old == store[linkId]
                new == store'[linkId]
            IN  /\ DOMAIN store' = DOMAIN store
                /\ \A other \in DOMAIN store \ {linkId} : store'[other] = store[other]
                /\ new.id = old.id
                /\ new.parentId = old.parentId
                /\ new.type = old.type
                /\ new.metadata = old.metadata
                /\ new.content = old.content
                /\ new.name = IF SuppliedName(updates.name)
                              THEN LinkName(updates.name) ELSE old.name
                /\ new.targetType = IF Supplied(updates.targetType)
                                    THEN updates.targetType ELSE old.targetType
                /\ new.target = IF Supplied(updates.target)
                                THEN updates.target ELSE old.target
                /\ last'.stamped = {linkId}

\* C22. updateLink is a partial update: on an existing link it changes only
\* the fields among name, targetType and target that the caller supplied
\* (and modifiedAt); a field not supplied, or passed as undefined, and id,
\* parentId, type and metadata keep their values, and no other entity
\* changes.
C22_UpdateLinkPartial == [][C22_Step]_vars

\* updateLink changed the targetType of a link and kept its target
C22_Witness ==
    /\ last.op = "updateLink"
    /\ last.success
    /\ \E id \in DOMAIN store :
         /\ store[id].type = "link"
         /\ store[id].targetType = "url"
         /\ store[id].target = "t"
         /\ last.stamped = {id}

\* the segments of a path: what stands between its slashes
Segments(path) == SelectSeq(Split(path, <<>>), LAMBDA part : part # <<>>)

\* the paths looked up: "/", "", "//a", "a/", and /n1, /n1/n2, /n1/n2/n3
\* over the names callers use
ResolvedPaths ==
    { <<"/">>, <<>>, <<"/", "/", "a">>, <<"a", "/">> }
    \cup { <<"/">> \o n1 : n1 \in NameInputs }
    \cup { <<"/">> \o n1 \o <<"/">> \o n2 : n1 \in NameInputs, n2 \in NameInputs }
    \cup { <<"/">> \o n1 \o <<"/">> \o n2 \o <<"/">> \o n3 :
             n1 \in NameInputs, n2 \in NameInputs, n3 \in NameInputs }

\* the entities reached from entity from by matching each segment by name
\* among the children, going on through directories only
RECURSIVE Reached(_, _, _)
Reached(entities, from, segs) ==
    IF segs = <<>> THEN {from} \cap DOMAIN entities
    ELSE UNION { Reached(entities, child, Tail(segs)) :
                   child \in {j \in ChildrenOf(entities, from) :
                                /\ entities[j].name = Head(segs)
                                /\ Len(segs) > 1 => entities[j].type = "directory"} }

\* C23. Path resolution: getEntityByPath returns the root for "/";
\* otherwise the entity reached by walking from the root and matching each
\* segment by exact name among the children of the current directory, and
\* null when a segment has no matching child or a segment that is not the
\* last one matches a non-directory.  After createDirectory("Docs", root)
\* and createFile("a.txt", docs, "hello"), "/Docs/a.txt" gives that file.
C23_PathResolution ==
    HasRoot =>
        \A path \in ResolvedPaths :
            LET found == getEntityByPath(store, initialized, mem.rootId, path)
                reached == Reached(store, mem.rootId, Segments(path))
            IN  IF path = <<"/">> THEN found = mem.rootId
                ELSE IF reached = {} THEN found = NullId
                ELSE found \in reached

\* a directory under the root and a file with content "hello" in it, which
\* getEntityByPath finds by its path
C23_Witness ==
    /\ HasRoot
    /\ \E d, e \in DOMAIN store :
         /\ store[d].type = "directory"
         /\ store[d].parentId = mem.rootId
         /\ store[d].name = <<"a">>
         /\ store[e].type = "file"
         /\ store[e].parentId = d
         /\ store[e].name = <<"a">>
         /\ store[e].content = "hello"
         /\ getEntityByPath(store, initialized, mem.rootId, <<"/", "a", "/", "a">>) = e

\* moveEntity(entityId, newParentId) is to succeed
C24_Accepts(entityId, newParentId) ==
    /\ entityId \in DOMAIN store
    /\ newParentId \in DOMAIN store
    /\ store[newParentId].type = "directory"
    /\ \A j \in ChildrenOf(store, newParentId) : store[j].name # store[entityId].name

\* a call moveEntity(entityId, newParentId)
C24_Step ==
    \A entityId \in Ids, newParentId \in Ids :
        MoveEntityCall(0, entityId, newParentId) =>
            IF C24_Accepts(entityId, newParentId)
            THEN /\ last'.success
                 /\ store' = [store EXCEPT ![entityId].parentId = newParentId]
                 /\ last'.stamped = {entityId}
            ELSE /\ ~last'.success
                 /\ store' = store
                 /\ saved' = saved
                 /\ mem' = mem
                 /\ last'.stamped = {}

\* C24. moveEntity(id, newParentId) succeeds exactly when entity id exists,
\* newParentId names an existing directory and no child of that directory
\* has the entity's current name; on success only the entity's parentId
\* (and modifiedAt) changes, to newParentId, its name and all other entities
\* staying as they were; otherwise it returns failure and nothing changes.
C24_MoveEntity == [][C24_Step]_vars

\* moveEntity moved an entity into a directory below the root
C24_Witness ==
    /\ last.op = "moveEntity"
    /\ last.success
    /\ \E id \in last.stamped :
         /\ id \in DOMAIN store
         /\ store[id].parentId \in DOMAIN store
         /\ store[store[id].parentId].parentId # NullId

\* the keys of a metadata object
Keys(metadata) == {p[1] : p \in metadata}

\* updateEntityMetadata(entityId, patch) returned success
C25_Step ==
    \A entityId \in Ids, patch \in MetadataPatchInputs :
        (UpdateEntityMetadataCall(0, entityId, patch) /\ last'.success) =>
            LET old == store[entityId]
                new == store'[entityId]
            IN  /\ \A q \in patch : q \in new.metadata
                /\ \A p \in old.metadata : p[1] \notin Keys(patch) => p \in new.metadata
                /\ \A p \in new.metadata : p \in patch \/ p \in old.metadata
                /\ \A p, q \in new.metadata : p[1] = q[1] => p = q
                /\ new = [old EXCEPT !.metadata = new.metadata]
                /\ last'.stamped = {}
                /\ DOMAIN store' = DOMAIN store
                /\ \A other \in DOMAIN store \ {entityId} : store'[other] = store[other]

\* C25. The metadata merge is shallow and additive: after
\* updateEntityMetadata(id, patch) succeeds, the entity's metadata maps every
\* key of patch to the patch value and every other key to its previous
\* value; the entity's modifiedAt, name, parentId and content are unchanged,
\* and so is every other entity.
C25_MetadataMerge == [][C25_Step]_vars

\* a patch was merged into metadata that had another key, and overwrote one
C25_Witness ==
    /\ last.op = "updateEntityMetadata"
    /\ last.success
    /\ \E id \in DOMAIN store : store[id].metadata = {<<"x", 2>>, <<"y", 1>>}

\* updateWindowSize(id, size) on an open window
C26_Step ==
    \A id \in Issued, size \in GeomSizeInputs :
        (UpdateWindowSizeCall(id, size) /\ IndexOf(windows, id) # 0) =>
            LET old == windows[IndexOf(windows, id)].position
                new == windows'[IndexOf(windows', id)].position
            IN  /\ new.width >= 200
                /\ new.height >= 100
                /\ new.width = IF size.width > 200 THEN size.width ELSE 200
                /\ new.height = IF size.height > 100 THEN size.height ELSE 100
                /\ new.x = old.x
                /\ new.y = old.y

\* C26. Size floor: after updateWindowSize(id, {width, height}) with any
\* integer width and height, zero and negative ones included, the window has
\* position.width = max(200, width) >= 200 and position.height =
\* max(100, height) >= 100, and its x and y are unchanged.
C26_SizeFloor == [][C26_Step]_vars

\* a window, moved, whose width and height were both raised to the floor
C26_Witness ==
    \E i \in DOMAIN windows :
        /\ ~windows[i].isMaximized
        /\ windows[i].position.width = 200
        /\ windows[i].position.height = 100
        /\ windows[i].position.x = 70

----------------------------------------------------------------------------
(* Opening entities: the application registry, useFileOpener and the
   double-click handler of the desktop *)

\* the registry of the later version of app-context.tsx, the one that
\* exports getAppsForExtension
DEFAULT_APPS_2 ==
    << [id |-> "notepad", name |-> <<"TextEdit">>,
        component |-> "Notepad", defaultSize |-> [width |-> 600, height |-> 400],
        defaultProps |-> <<>>],
       [id |-> "browser", name |-> <<"Browser">>,
        component |-> "Browser", defaultSize |-> [width |-> 800, height |-> 600],
        defaultProps |-> <<>>],
       [id |-> "filemanager", name |-> <<"File Manager">>,
        component |-> "FileManager", defaultSize |-> [width |-> 700, height |-> 500],
        defaultProps |-> <<>>],
       [id |-> "systempreferences", name |-> <<"System Preferences">>,
        component |-> "SystemPreferences", defaultSize |-> [width |-> 650, height |-> 450],
        defaultProps |-> <<>>],
       [id |-> "imageviewer", name |-> <<"Image Viewer">>,
        component |-> "ImageViewer", defaultSize |-> [width |-> 600, height |-> 500],
        defaultProps |-> <<>>],
       [id |-> "photobooth", name |-> <<"Photo Booth">>,
        component |-> "PhotoBooth", defaultSize |-> [width |-> 640, height |-> 480],
        defaultProps |-> <<>>] >>

\* apps.find((app) => app.id === id): <<app>>, None for undefined
getAppById(apps, id) ==
    LET found == {k \in DOMAIN apps : apps[k].id = id}
    IN  IF found = {} THEN None ELSE <<apps[Min(found)]>>

\* appInfo.defaultProps || {}
PropsOrEmpty(defaultProps) == IF defaultProps = None THEN {} ELSE defaultProps[1]

\* { ...defaultProps, key: value }
WithProp(defaultProps, key, value) ==
    {p \in PropsOrEmpty(defaultProps) : p[1] # key} \cup {<<key, value>>}

\* path.extname(fileName): from the last "." on, "" when there is none or
\* when the name starts with the only one
extname(fileName) ==
    LET dots == {i \in 2..Len(fileName) : fileName[i] = "."}
    IN  IF dots = {} THEN <<>>
        ELSE SubSeq(fileName, CHOOSE i \in dots : \A j \in dots : j <= i, Len(fileName))

\* EXTENSION_TO_APP_MAP[ext], None for undefined (of the entries of one
\* application, one)
EXTENSION_TO_APP_MAP(ext) ==
    IF ext = <<".", "t", "x", "t">> THEN <<"notepad">>
    ELSE IF ext = <<".", "h", "t", "m", "l">> THEN <<"browser">>
    ELSE IF ext = <<".", "p", "n", "g">> THEN <<"imageviewer">>
    ELSE None

\* ".png .jpg .jpeg .gif .webp .bmp .ico"
ImageExtensions ==
    <<".", "p", "n", "g", " ", ".", "j", "p", "g", " ", ".", "j", "p", "e", "g", " ",
      ".", "g", "i", "f", " ", ".", "w", "e", "b", "p", " ", ".", "b", "m", "p", " ",
      ".", "i", "c", "o">>

\* text.includes(part)
Includes(text, part) ==
    \E i \in 1..(Len(text) - Len(part) + 1) : SubSeq(text, i, i + Len(part) - 1) = part

\* getAppsForExtension(fileName): the applications, the default one first
getAppsForExtension(fileName) ==
    LET ext == extname(fileName)
        defaultAppId == EXTENSION_TO_APP_MAP(ext)
        defaultApp == IF defaultAppId = None THEN None
                      ELSE getAppById(DEFAULT_APPS_2, defaultAppId[1])
        textEditApp == getAppById(DEFAULT_APPS_2, "notepad")
        browserApp == getAppById(DEFAULT_APPS_2, "browser")
        isPotentiallyText == ~Includes(ImageExtensions, ext)
    IN  defaultApp
        \o (IF textEditApp # None /\ defaultAppId # <<"notepad">> /\ isPotentiallyText
            THEN textEditApp ELSE <<>>)
        \o (IF browserApp # None /\ defaultAppId # <<"browser">>
               /\ ext = <<".", "h", "t", "m", "l">>
            THEN browserApp ELSE <<>>)

\* the uuid of an entity as the string a link target or a prop holds
Uuid(id) == ToString(id)
\* the entity whose uuid the string is, NullId when it is the uuid of none
\* ever drawn
EntityOf(target) ==
    IF \E id \in 1..(MaxIds + 1) : Uuid(id) = target
    THEN CHOOSE id \in 1..(MaxIds + 1) : Uuid(id) = target
    ELSE NullId
\* the target of a link read as a path: the characters of the string
PathOf(target) ==
    IF target = "/a" THEN <<"/", "a">>
    ELSE IF target = "/a.lnk" THEN <<"/", "a">> \o LnkSuffix
    ELSE IF target = "/" THEN <<"/">>
    ELSE <<target>>

\* What a call of an opener did: the openWindow calls, the showErrorDialog
\* calls and the calls of the file-system service, each in order; hung when
\* the call never returns.
NoEffects == [opens |-> <<>>, errors |-> <<>>, reads |-> <<>>, hung |-> FALSE]
\* An opener reads a file system that does not change while it runs: once it
\* has followed more links than there are entities it is at an entity it was
\* at before, and goes round for ever.
MaxHops == MaxIds + 2
\* an opener as it would be if it called openWindow twice
OpenedTwice(e, params) == [e EXCEPT !.opens = Append(Append(@, params), params)]
Opened(e, params) == [e EXCEPT !.opens = Append(@, params)]
Shown(e, message) == [e EXCEPT !.errors = Append(@, message)]
Reading(e, op) == [e EXCEPT !.reads = Append(@, op)]

\* the file system an opener reads
FileSystemNow == [entities |-> store, initialized |-> initialized, rootId |-> mem.rootId]

\* openEntity of lib/hooks/useFileOpener.ts; position is what
\* getDefaultPosition draws for x and y, overrideAppId is None or <<appId>>
RECURSIVE openEntity(_, _, _, _, _, _)
openEntity(e, fs, apps, entity, overrideAppId, position) ==
    LET Sized(size) == Merge(size, position)
    IN
    IF entity.type = "link" THEN
        IF entity.targetType = "application" THEN
            LET appInfo == getAppById(apps, entity.target)
            IN  IF appInfo = None THEN Shown(e, "Cannot open link: Application not found.")
                ELSE Opened(e, [title |-> appInfo[1].name,
                                component |-> appInfo[1].component,
                                props |-> PropsOrEmpty(appInfo[1].defaultProps),
                                position |-> Sized(appInfo[1].defaultSize)])
        ELSE IF entity.targetType \in {"directory", "file"} THEN
            LET e1 == Reading(e, "getEntityByPath")
                targetEntity == getEntityByPath(fs.entities, fs.initialized, fs.rootId,
                                                PathOf(entity.target))
            IN  IF targetEntity = NullId
                THEN Shown(e1, "Cannot open link: Target path not found.")
                ELSE IF Len(e1.reads) > MaxHops THEN [e1 EXCEPT !.hung = TRUE]
                ELSE openEntity(e1, fs, apps, fs.entities[targetEntity], None, position)
        ELSE IF entity.targetType = "url" THEN
            LET browserApp == getAppById(apps, "browser")
            IN  IF browserApp = None THEN Shown(e, "Browser application not found.")
                ELSE Opened(e, [title |-> browserApp[1].name,
                                component |-> browserApp[1].component,
                                props |-> {<<"initialUrl", entity.target>>},
                                position |-> Sized(browserApp[1].defaultSize)])
        ELSE Shown(e, "Unsupported link target type")
    ELSE IF entity.type = "directory" THEN
        LET e1 == Reading(e, "getPath")
            dirPath == getPath(fs.entities, entity.id, MaxIds + 1)
            fileManagerApp == getAppById(apps, "filemanager")
        IN  IF fileManagerApp = None
            THEN Shown(e1, "File Manager application not found.")
            ELSE Opened(e1, [title |-> fileManagerApp[1].name,
                             component |-> fileManagerApp[1].component,
                             props |-> {<<"initialPath", dirPath>>},
                             position |-> Sized(fileManagerApp[1].defaultSize)])
    ELSE IF entity.type = "file" THEN
        LET applicableApps == getAppsForExtension(entity.name)
            appIdToUse == IF overrideAppId # None THEN overrideAppId
                          ELSE IF applicableApps = <<>> THEN None
                          ELSE <<applicableApps[1].id>>
            appInfo == IF appIdToUse = None THEN None ELSE getAppById(apps, appIdToUse[1])
        IN  IF appIdToUse = None THEN Shown(e, "No application found to open the file.")
            ELSE IF appInfo = None THEN Shown(e, "Application not found")
            ELSE Opened(e, [title |-> appInfo[1].name,
                            component |-> appInfo[1].component,
                            props |-> WithProp(appInfo[1].defaultProps, "fileId", Uuid(entity.id)),
                            position |-> Sized(appInfo[1].defaultSize)])
    ELSE Shown(e, "Cannot open items of this type.")

\* DEFAULT_APP_MAP[extension] || FALLBACK_APP_ID of the other useFileOpener
DEFAULT_APP_MAP(extension) ==
    IF extension \in {<<".", "t", "x", "t">>, <<".", "m", "d">>} THEN "textedit"
    ELSE IF extension \in {<<".", "h", "t", "m", "l">>, <<".", "h", "t", "m">>} THEN "browser"
    ELSE "textedit"

\* openEntity of the other useFileOpener (src/unnamed/part_010): the body is
\* one try block, the catch shows the message of the error in the dialog;
\* link targets are uuids
RECURSIVE openEntity_010(_, _, _, _, _, _)
openEntity_010(e, fs, apps, entity, overrideAppId, defaultPos) ==
    IF entity.type = "directory" THEN
        LET e1 == Reading(e, "getPath")
            dirPath == getPath(fs.entities, entity.id, MaxIds + 1)
        IN  IF dirPath = <<>> THEN Shown(e1, "Could not resolve directory path.")
            ELSE Opened(e1, [title |-> <<"File Manager">>,
                             component |-> "FileManager",
                             props |-> {<<"initialPath", dirPath>>},
                             position |-> Merge(defaultPos, [width |-> 700, height |-> 500])])
    ELSE IF entity.type = "link" THEN
        IF entity.targetType = "application" THEN
            LET appInfo == getAppById(apps, entity.target)
            IN  IF appInfo = None THEN Shown(e, "Application not found")
                ELSE Opened(e, [title |-> appInfo[1].name,
                                component |-> appInfo[1].component,
                                props |-> PropsOrEmpty(appInfo[1].defaultProps),
                                position |-> Merge(appInfo[1].defaultSize, defaultPos)])
        ELSE IF entity.targetType = "url" THEN
            Opened(e, [title |-> <<"Browser">>,
                       component |-> "Browser",
                       props |-> {<<"initialUrl", entity.target>>},
                       position |-> Merge(defaultPos, [width |-> 800, height |-> 600])])
        ELSE IF entity.targetType \in {"directory", "file"} THEN
            LET e1 == Reading(e, "getEntity")
                target == EntityOf(entity.target)
            IN  IF target \notin DOMAIN fs.entities
                   \/ fs.entities[target].type # entity.targetType
                THEN Shown(e1, "Link target not found.")
                ELSE openEntity_010(e1, fs, apps, fs.entities[target], None, defaultPos)
        ELSE Shown(e, "Unsupported link target type")
    ELSE IF entity.type = "file" THEN
        LET appId == IF overrideAppId # None THEN overrideAppId[1]
                     ELSE DEFAULT_APP_MAP(extname(entity.name))
            appInfo == getAppById(apps, appId)
        IN  IF appInfo = None THEN Shown(e, "Application not found")
            ELSE Opened(e, [title |-> appInfo[1].name,
                            component |-> appInfo[1].component,
                            props |-> WithProp(appInfo[1].defaultProps, "fileId", Uuid(entity.id)),
                            position |-> Merge(appInfo[1].defaultSize, defaultPos)])
    ELSE IF entity.type = "application"
    THEN Shown(e, "Cannot open this application type directly. Use application links.")
    ELSE Shown(e, "Unsupported entity type")

\* DESKTOP_PATH
DESKTOP_PATH == <<"/", "U", "s", "e", "r", "s", "/", "U", "s", "e", "r", "/",
                  "D", "e", "s", "k", "t", "o", "p">>

\* handleItemDoubleClick of the desktop, of an item that is not being
\* renamed; link targets are uuids
handleItemDoubleClick(e, fs, apps, item) ==
    IF item.type = "directory" THEN
        Opened(e, [title |-> <<"File Manager">>,
                   component |-> "FileManager",
                   position |-> [x |-> 100, y |-> 100, width |-> 700, height |-> 500],
                   props |-> {<<"initialPath", DESKTOP_PATH \o <<"/">> \o item.name>>}])
    ELSE IF item.type = "file" THEN
        Opened(e, [title |-> <<"TextEdit">>,
                   component |-> "Notepad",
                   position |-> [x |-> 150, y |-> 150, width |-> 500, height |-> 400],
                   props |-> {<<"fileId", Uuid(item.id)>>}])
    ELSE IF item.type = "link" THEN
        IF item.targetType = "application" THEN
            LET appInfo == getAppById(apps, item.target)
            IN  IF appInfo # None
                THEN Opened(e, [title |-> appInfo[1].name,
                                component |-> appInfo[1].component,
                                position |-> Merge(appInfo[1].defaultSize, [x |-> 120, y |-> 120]),
                                props |-> PropsOrEmpty(appInfo[1].defaultProps)])
                ELSE Shown(e, "Application not found")
        ELSE IF item.targetType = "directory" THEN
            LET e1 == Reading(e, "getPath")
                targetPath == getPath(fs.entities, EntityOf(item.target), MaxIds + 1)
            IN  IF targetPath # <<>>
                THEN Opened(e1, [title |-> <<"File Manager">>,
                                 component |-> "FileManager",
                                 position |-> [x |-> 130, y |-> 130, width |-> 700, height |-> 500],
                                 props |-> {<<"initialPath", targetPath>>}])
                ELSE Shown(e1, "Could not resolve path for directory link target")
        ELSE IF item.targetType = "file" THEN
            Opened(e, [title |-> <<"TextEdit">>,
                       component |-> "Notepad",
                       position |-> [x |-> 140, y |-> 140, width |-> 500, height |-> 400],
                       props |-> {<<"fileId", item.target>>}])
        ELSE IF item.targetType = "url" THEN
            Opened(e, [title |-> <<"Browser">>,
                       component |-> "Browser",
                       position |-> [x |-> 150, y |-> 150, width |-> 800, height |-> 600],
                       props |-> {<<"initialUrl", item.target>>}])
        ELSE e
    ELSE e

----------------------------------------------------------------------------
(* SpecOpen : entities and links of every target type are created, then
              opened through useFileOpener and by double click on the
              desktop. *)

\* window uuids the window manager may draw in SpecOpen
MaxOpen == 1

OpenLinkTargetTypes == {"application", "directory", "file", "url"}
\* the targets of the links: a registered application id, the uuid of the
\* first entity created below the root, the path of an entity named "a"
\* in the root, a url, and a string that is none of these
OpenTargetInputs ==
    {"browser", Uuid(RootId + 1), "/a", "/a.lnk", "https://example.com", "nope"}
OverrideInputs == {None, <<"browser">>}
\* x and y as the openers draw them
OpenerPositionInputs == { [x |-> 50, y |-> 50] }

\* the links are created in the root, under one name
CreateLinkOpen ==
    /\ Ready
    /\ \E name \in {<<"a">>}, parentId \in {RootId},
          targetType \in OpenLinkTargetTypes, target \in OpenTargetInputs :
         LET r == createLink(Begin(0), name, parentId, targetType, target, nextId)
         IN  /\ nextId \in DOMAIN r.store => nextId <= MaxIds
             /\ Return(r, "createLink")
             /\ nextId' = Drawn(r)
    /\ UNCHANGED initialized

\* the openWindow calls of an opener, in order
RECURSIVE OpenAll(_, _, _)
OpenAll(w, opens, id) ==
    IF opens = <<>> THEN w
    ELSE OpenAll(openWindow(w, Head(opens), id), Tail(opens), id + 1)

\* the opener returned: its openWindow and showErrorDialog calls applied
Opener(e) ==
    /\ Ready
    /\ nextWinId + Len(e.opens) <= MaxOpen + 1
    /\ RenderWindows(OpenAll(Current, e.opens, nextWinId))
    /\ nextWinId' = nextWinId + Len(e.opens)
    /\ errorDialogMessage' = IF e.errors = <<>> THEN errorDialogMessage
                             ELSE <<e.errors[Len(e.errors)]>>

OpenEntityCall(entityId, overrideAppId, position) ==
    Opener(openEntity(NoEffects, FileSystemNow, DEFAULT_APPS_2, store[entityId],
                      overrideAppId, position))

OpenEntity ==
    \E entityId \in DOMAIN store, overrideAppId \in OverrideInputs,
       position \in OpenerPositionInputs :
        OpenEntityCall(entityId, overrideAppId, position)

OpenEntity010Call(entityId, overrideAppId, defaultPos) ==
    Opener(openEntity_010(NoEffects, FileSystemNow, DEFAULT_APPS, store[entityId],
                          overrideAppId, defaultPos))

OpenEntity010 ==
    \E entityId \in DOMAIN store, overrideAppId \in OverrideInputs,
       defaultPos \in OpenerPositionInputs :
        OpenEntity010Call(entityId, overrideAppId, defaultPos)

HandleItemDoubleClickCall(itemId) ==
    Opener(handleItemDoubleClick(NoEffects, FileSystemNow, DEFAULT_APPS, store[itemId]))

HandleItemDoubleClick == \E itemId \in DOMAIN store : HandleItemDoubleClickCall(itemId)

\* hideDialog: setErrorDialogMessage(null)
HideDialog ==
    /\ errorDialogMessage # None
    /\ errorDialogMessage' = None
    /\ UNCHANGED <<fsVars, wmVars>>

NextOpen ==
    \/ Initialize(0)
    \/ CreateDirectory(0)
    \/ CreateFile(0)
    \/ CreateLinkOpen
    \/ OpenEntity
    \/ OpenEntity010
    \/ HandleItemDoubleClick
    \/ HideDialog

SpecOpen == Init /\ [][NextOpen]_vars

----------------------------------------------------------------------------
(* Claims on opening entities *)

\* the links of the store with targetType url
UrlLinks == {id \in DOMAIN store : store[id].type = "link" /\ store[id].targetType = "url"}

\* the component of the browser application of a registry
BrowserComponent(apps) ==
    (CHOOSE app \in {apps[k] : k \in DOMAIN apps} : app.id = "browser").component

\* params.props.initialUrl
InitialUrlOf(params) == {p[2] : p \in {q \in params.props : q[1] = "initialUrl"}}

\* the opener made exactly one openWindow call, of the browser component with
\* initialUrl U, and no call of the file-system service
OpensBrowser(e, apps, U) ==
    /\ Len(e.opens) = 1
    /\ e.opens[1].component = BrowserComponent(apps)
    /\ InitialUrlOf(e.opens[1]) = {U}
    /\ e.reads = <<>>

C27_Calls ==
    \A id \in UrlLinks, overrideAppId \in OverrideInputs, position \in OpenerPositionInputs :
        /\ OpensBrowser(openEntity(NoEffects, FileSystemNow, DEFAULT_APPS_2, store[id],
                                   overrideAppId, position),
                        DEFAULT_APPS_2, store[id].target)
        /\ OpensBrowser(openEntity_010(NoEffects, FileSystemNow, DEFAULT_APPS, store[id],
                                       overrideAppId, position),
                        DEFAULT_APPS, store[id].target)
        /\ OpensBrowser(handleItemDoubleClick(NoEffects, FileSystemNow, DEFAULT_APPS, store[id]),
                        DEFAULT_APPS, store[id].target)

C27_Step ==
    \A id \in UrlLinks, overrideAppId \in OverrideInputs, position \in OpenerPositionInputs :
        (\/ OpenEntityCall(id, overrideAppId, position)
         \/ OpenEntity010Call(id, overrideAppId, position)
         \/ HandleItemDoubleClickCall(id))
        => /\ Len(windows') = Len(windows) + 1
           /\ windows'[Len(windows')].component = "Browser"
           /\ InitialUrlOf(windows'[Len(windows')]) = {store[id].target}
           /\ UNCHANGED fsVars

\* C27. URL links open the browser: opening a link with targetType url and
\* target U through useFileOpener or by double click on the desktop makes
\* exactly one openWindow call, of the component of the registered browser
\* application with props.initialUrl = U, calls the file-system service not
\* at all and leaves the file system as it was.
C27_UrlLinksOpenBrowser == [](Ready => C27_Calls) /\ [][C27_Step]_vars

\* a url link was opened: a Browser window shows its target
C27_Witness ==
    \E id \in UrlLinks, i \in DOMAIN windows :
        /\ store[id].target = "https://example.com"
        /\ windows[i].component = "Browser"
        /\ InitialUrlOf(windows[i]) = {"https://example.com"}

\* the link's target is dangling: an application id no registry holds, or
\* the target of a file or directory link that is neither the uuid nor the
\* path of an entity of the store
Registered(target) ==
    getAppById(DEFAULT_APPS, target) # None \/ getAppById(DEFAULT_APPS_2, target) # None

Resolves(target) ==
    \/ EntityOf(target) \in DOMAIN store
    \/ getEntityByPath(store, initialized, mem.rootId, PathOf(target)) # NullId

DanglingLinks ==
    {id \in DOMAIN store :
        /\ store[id].type = "link"
        /\ \/ store[id].targetType = "application" /\ ~Registered(store[id].target)
           \/ store[id].targetType \in {"file", "directory"} /\ ~Resolves(store[id].target)}

\* the opener showed the error dialog and opened no window
ShowsError(e) == e.errors # <<>> /\ e.opens = <<>>

C28_Calls ==
    \A id \in DanglingLinks, overrideAppId \in OverrideInputs, position \in OpenerPositionInputs :
        /\ ShowsError(openEntity(NoEffects, FileSystemNow, DEFAULT_APPS_2, store[id],
                                 overrideAppId, position))
        /\ ShowsError(openEntity_010(NoEffects, FileSystemNow, DEFAULT_APPS, store[id],
                                     overrideAppId, position))
        /\ ShowsError(handleItemDoubleClick(NoEffects, FileSystemNow, DEFAULT_APPS, store[id]))

C28_Step ==
    \A id \in DanglingLinks, overrideAppId \in OverrideInputs, position \in OpenerPositionInputs :
        (\/ OpenEntityCall(id, overrideAppId, position)
         \/ OpenEntity010Call(id, overrideAppId, position)
         \/ HandleItemDoubleClickCall(id))
        => /\ windows' = windows
           /\ errorDialogMessage' # None

\* C28. Dangling link targets surface an error: opening a link whose
\* targetType is application and whose target is no registered application
\* id, or whose targetType is file or directory and whose target resolves to
\* no entity, through useFileOpener or by double click on the desktop, shows
\* the error dialog and opens no window.
C28_DanglingTargetsShowError == [](Ready => C28_Calls) /\ [][C28_Step]_vars

\* the same of the two versions of useFileOpener alone
C28_UseFileOpenerShowsError ==
    [](Ready =>
        \A id \in DanglingLinks, overrideAppId \in OverrideInputs,
           position \in OpenerPositionInputs :
            /\ ShowsError(openEntity(NoEffects, FileSystemNow, DEFAULT_APPS_2, store[id],
                                     overrideAppId, position))
            /\ ShowsError(openEntity_010(NoEffects, FileSystemNow, DEFAULT_APPS, store[id],
                                         overrideAppId, position)))

\* a dangling file link was double-clicked on the desktop: a Notepad window
\* is open on the target that does not exist, and no error dialog
C28_Witness ==
    \E id \in DanglingLinks, i \in DOMAIN windows :
        /\ store[id].targetType = "file"
        /\ windows[i].component = "Notepad"
        /\ <<"fileId", store[id].target>> \in windows[i].props
        /\ errorDialogMessage = None

----------------------------------------------------------------------------
(* SpecRace : createFile and updateEntityMetadata issued without awaiting
              the call before; each call advances from one await of a
              storage call to the next, in any order with the other. *)

\* calls that may be in flight together
MaxCalls == 2
\* times that calls are issued and then awaited together
MaxBatches == 2

RaceParentInputs == {RootId}
RaceEntityInputs == {RootId, RootId + 1}
RaceMetadataInputs == { {<<"x", 1>>}, {<<"y", 1>>} }

\* the call awaits the storage call pc; done, it holds its result
InFlight == {i \in DOMAIN calls.running : calls.running[i].pc # "done"}

\* a call is issued: it runs up to its first await, db.getEntity
Issue(call) ==
    /\ Ready
    /\ Len(calls.running) < MaxCalls
    /\ calls.running = <<>> => calls.batches < MaxBatches
    /\ calls' = [before |-> IF calls.running = <<>> THEN store ELSE calls.before,
                 firstId |-> IF calls.running = <<>> THEN nextId ELSE calls.firstId,
                 running |-> Append(calls.running, call),
                 batches |-> IF calls.running = <<>> THEN calls.batches + 1
                             ELSE calls.batches]
    /\ UNCHANGED <<store, saved, mem, initialized, nextId, fsHung, faults, last>>
    /\ UNCHANGED <<wmVars, uiVars>>

IssueCreateFile ==
    \E name \in NameInputs, parentId \in RaceParentInputs, content \in ContentInputs :
        Issue([op |-> "createFile", name |-> name, parentId |-> parentId,
               content |-> content, pc |-> "getEntity", entity |-> None,
               state |-> EmptyState, success |-> FALSE, error |-> ""])

IssueUpdateEntityMetadata ==
    \E entityId \in RaceEntityInputs, metadataUpdates \in RaceMetadataInputs :
        Issue([op |-> "updateEntityMetadata", entityId |-> entityId,
               metadataUpdates |-> metadataUpdates, pc |-> "getEntity",
               entity |-> None, success |-> FALSE, error |-> ""])

\* call i goes on as next; done, it returned result
Goes(i, next) ==
    calls' = [calls EXCEPT !.running[i] = next]

Returns(i, call, success, error, stamped) ==
    /\ Goes(i, [call EXCEPT !.pc = "done", !.success = success, !.error = error])
    /\ last' = [op |-> call.op, success |-> success, error |-> error,
                log |-> <<>>, stamped |-> stamped]

\* createFile from the storage call it awaits to the next await or to its
\* return.  The uuid is drawn and the file built after the sibling check;
\* this.state.entities[fileId] = file follows db.saveEntity;
\* db.saveFileSystemState writes this.state as it is when db.put is reached,
\* between the call and its completion.
StepCreateFile(i) ==
    LET call == calls.running[i]
    IN  /\ call.op = "createFile"
        /\ \/ /\ call.pc = "getEntity"
              /\ IF NoParentDir(store, call.parentId)
                 THEN Returns(i, call, FALSE, "Parent directory not found", {})
                 ELSE Goes(i, [call EXCEPT !.pc = "getEntitiesByParent"])
                      /\ UNCHANGED last
              /\ UNCHANGED <<store, mem, saved, nextId>>
           \/ /\ call.pc = "getEntitiesByParent"
              /\ IF SomeNamed(store, call.parentId, call.name)
                 THEN Returns(i, call, FALSE, "already exists", {})
                      /\ UNCHANGED nextId
                 ELSE /\ nextId <= MaxIds
                      /\ Goes(i, [call EXCEPT !.pc = "saveEntity",
                                    !.entity = <<File(nextId, call.name, call.parentId,
                                                      call.content)>>])
                      /\ nextId' = nextId + 1
                      /\ UNCHANGED last
              /\ UNCHANGED <<store, mem, saved>>
           \/ /\ call.pc = "saveEntity"
              /\ store' = Put(store, call.entity[1])
              /\ mem' = [mem EXCEPT !.entities = Put(@, call.entity[1])]
              /\ Goes(i, [call EXCEPT !.pc = "saveFileSystemState", !.state = mem'])
              /\ UNCHANGED <<saved, nextId, last>>
           \/ /\ call.pc = "saveFileSystemState"
              /\ saved' \in {call.state, mem}
              /\ Returns(i, call, TRUE, "", {call.entity[1].id})
              /\ UNCHANGED <<store, mem, nextId>>

\* updateEntityMetadata likewise: updatedEntity is built from the entity
\* this.getEntity returned
StepUpdateEntityMetadata(i) ==
    LET call == calls.running[i]
    IN  /\ call.op = "updateEntityMetadata"
        /\ \/ /\ call.pc = "getEntity"
              /\ IF call.entityId \notin DOMAIN store
                 THEN Returns(i, call, FALSE, "Entity not found", {})
                 ELSE Goes(i, [call EXCEPT !.pc = "saveEntity",
                                 !.entity = <<[store[call.entityId] EXCEPT !.metadata =
                                                MergeMetadata(@, call.metadataUpdates)]>>])
                      /\ UNCHANGED last
              /\ UNCHANGED store
           \/ /\ call.pc = "saveEntity"
              /\ store' = Put(store, call.entity[1])
              /\ Returns(i, call, TRUE, "", {})
        /\ UNCHANGED <<mem, saved, nextId>>

\* the storage call that a call in flight awaits completes
Step ==
    /\ \E i \in InFlight : StepCreateFile(i) \/ StepUpdateEntityMetadata(i)
    /\ UNCHANGED <<initialized, fsHung, faults>>
    /\ UNCHANGED <<wmVars, uiVars>>

\* the caller has awaited every call it issued
Settle ==
    /\ calls.running # <<>>
    /\ InFlight = {}
    /\ calls' = [NoCalls EXCEPT !.batches = calls.batches]
    /\ UNCHANGED <<store, saved, mem, initialized, nextId, fsHung, faults, last>>
    /\ UNCHANGED <<wmVars, uiVars>>

InitializeIdle == calls.running = <<>> /\ Initialize(0)

NextRace ==
    \/ InitializeIdle
    \/ IssueCreateFile
    \/ IssueUpdateEntityMetadata
    \/ Step
    \/ Settle

SpecRace == Init /\ [][NextRace]_vars

----------------------------------------------------------------------------
(* Claims on calls in flight together *)

\* the call run alone, from start to return, on the object store entities,
\* id being the uuid it draws: the object store it leaves
RunAlone(entities, call, id) ==
    LET c == [Begin(0) EXCEPT !.store = entities]
    IN  IF call.op = "createFile"
        THEN createFile(c, call.name, call.parentId, call.content, id).store
        ELSE updateEntityMetadata(c, call.entityId, call.metadataUpdates).store

\* first run alone and awaited, then second
OneAfterTheOther(first, second) ==
    LET entities == RunAlone(calls.before, first, calls.firstId)
    IN  RunAlone(entities, second,
                 IF calls.firstId \in DOMAIN entities THEN calls.firstId + 1
                 ELSE calls.firstId)

\* two calls were in flight together and both have returned
BothReturned == Len(calls.running) = 2 /\ InFlight = {}

\* C29. Operations are logically serialized: when two calls issued without
\* awaiting the first have both returned, whatever the order in which their
\* storage calls completed, the object store is the one that running the two
\* calls one after the other, in one of the two orders, leaves.
C29_Serialized ==
    BothReturned =>
        store \in {OneAfterTheOther(calls.running[1], calls.running[2]),
                   OneAfterTheOther(calls.running[2], calls.running[1])}

\* C29, first particular: two overlapping createFile calls with the same
\* name and parent do not both succeed.
C29_OverlappingCreates ==
    BothReturned =>
        ~ /\ calls.running[1].op = "createFile" /\ calls.running[2].op = "createFile"
          /\ calls.running[1].name = calls.running[2].name
          /\ calls.running[1].parentId = calls.running[2].parentId
          /\ calls.running[1].success /\ calls.running[2].success

\* C29, second particular: two overlapping updateEntityMetadata calls on one
\* entity with disjoint keys, both successful, leave both keys set.
C29_OverlappingMetadata ==
    BothReturned =>
        \A i \in {1, 2} :
            LET a == calls.running[i]
                b == calls.running[3 - i]
            IN  (/\ a.op = "updateEntityMetadata" /\ b.op = "updateEntityMetadata"
                 /\ a.entityId = b.entityId
                 /\ Keys(a.metadataUpdates) \cap Keys(b.metadataUpdates) = {}
                 /\ a.success /\ b.success)
                => a.metadataUpdates \subseteq store[a.entityId].metadata

\* two createFile calls with one name and parent have both succeeded, and
\* the directory holds two files of that name
C29_Witness ==
    /\ BothReturned
    /\ calls.running[1].op = "createFile" /\ calls.running[2].op = "createFile"
    /\ calls.running[1].name = calls.running[2].name
    /\ calls.running[1].success /\ calls.running[2].success
    /\ Cardinality({id \in DOMAIN store : store[id].name = calls.running[1].name
                                          /\ store[id].parentId = RootId}) = 2

----------------------------------------------------------------------------
(* Claims on the window manager, continued *)

\* C30. Active implies visible: in every state the window manager reaches,
\* no window has both isActive = true and isMinimized = true; so when every
\* open window is minimized, none is active.
C30_ActiveImpliesVisible ==
    \A i \in DOMAIN windows : ~(windows[i].isActive /\ windows[i].isMinimized)

\* a window was closed while the other one was minimized: the minimized
\* window is the active one
C30_Witness ==
    /\ Len(windows) = 1
    /\ nextWinId = 3
    /\ windows[1].isActive /\ windows[1].isMinimized
    /\ activeWindowId = windows[1].id

----------------------------------------------------------------------------
(* SpecSnapshot : openWindow, activateWindow and restoreWindow called twice
                  from one render: both calls hold the handlers of that
                  render, whose closures read the same highestZIndex; the
                  setWindows updaters run one after the other. *)

\* the handler call applied to w; id is the uuid an openWindow draws
Handle(w, call, id) ==
    IF call.op = "openWindow" THEN openWindow(w, call.params, id)
    ELSE IF call.op = "activateWindow" THEN activateWindow(w, call.id)
    ELSE restoreWindow(w, call.id)

\* the calls an event handler can make
SnapshotCalls ==
    {[op |-> "openWindow", params |-> [position |-> position]] : position \in PositionInputs}
    \cup {[op |-> op, id |-> id] : op \in {"activateWindow", "restoreWindow"}, id \in Issued}

\* the uuids the calls draw
Opens(call) == IF call.op = "openWindow" THEN 1 ELSE 0

\* first, then second, both from the render that shows w: second reads the
\* highestZIndex of w, and the windows that first's updater returned
FromOneRender(w, first, second, id) ==
    Handle([Handle(w, first, id) EXCEPT !.highestZIndex = w.highestZIndex],
           second, id + Opens(first))

TwoCallsOneRender ==
    \E first \in SnapshotCalls, second \in SnapshotCalls :
        /\ highestZIndex < MaxZ
        /\ nextWinId + Opens(first) + Opens(second) <= MaxWindows + 1
        /\ Render(FromOneRender(Current, first, second, nextWinId))
        /\ nextWinId' = nextWinId + Opens(first) + Opens(second)

NextSnapshot ==
    \/ OpenWindow
    \/ MinimizeWindow
    \/ ActivateWindow
    \/ RestoreWindow
    \/ CloseWindow
    \/ TwoCallsOneRender

SpecSnapshot == Init /\ [][NextSnapshot]_vars

\* no two open windows have the same zIndex, and none a zIndex above the
\* highest allocated
DistinctZIndex ==
    /\ \A i, j \in DOMAIN windows : i # j => windows[i].zIndex # windows[j].zIndex
    /\ \A i \in DOMAIN windows : windows[i].zIndex <= highestZIndex

\* C31. z-index values are never reused: in every reachable state no two
\* open windows have the same zIndex, the highest allocated zIndex is at
\* least every window's zIndex and never decreases, also when two
\* openWindow / activateWindow / restoreWindow calls are made from one
\* render, both reading the highest allocated zIndex of that render.
C31_ZIndexNeverReused ==
    []DistinctZIndex /\ [][highestZIndex' >= highestZIndex]_vars

\* two windows opened from one render carry the same zIndex
C31_Witness ==
    /\ Len(windows) = 2
    /\ windows[1].zIndex = windows[2].zIndex
    /\ highestZIndex = 1

----------------------------------------------------------------------------
(* Claims on thumbnails and animation data *)

\* a window that holds a thumbnail is minimized
ThumbnailWhileMinimized ==
    \A i \in DOMAIN windows : windows[i].thumbnail # Null => windows[i].isMinimized

C32_Step ==
    \A id \in Issued :
        (/\ IndexOf(windows, id) # 0
         /\ \/ Render(activateWindow(Current, id))
            \/ Render(restoreWindow(Current, id))
            \/ Render(maximizeWindow(Current, id)))
        => /\ IndexOf(windows', id) # 0
           /\ windows'[IndexOf(windows', id)].thumbnail = Null

-----------------------------------------------------------------------------
(* Windows with content, minimized and restored *)

\* what a caller of openWindow passes for an application window
FrameParamsInputs ==
    { [title |-> "Browser", component |-> "Browser",
       position |-> [x |-> 50, y |-> 40, width |-> 800, height |-> 600],
       props |-> {<<"initialUrl", "https://www.example.com">>}],
      [title |-> "TextEdit", component |-> "Notepad",
       position |-> [x |-> 70, y |-> 60, width |-> 500, height |-> 400],
       props |-> {}] }

OpenWindowFrame ==
    /\ nextWinId <= MaxWindows
    /\ \E params \in FrameParamsInputs : OpenWindowCall(params)

NextFrame ==
    \/ OpenWindowFrame
    \/ MinimizeWindow
    \/ RestoreWindow
    \/ ToggleMaximize

SpecFrame == Init /\ [][NextFrame]_vars

\* the fields of the minimized window the claim names
SameOwnState(before, after) ==
    /\ after.position = before.position
    /\ after.previousPosition = before.previousPosition
    /\ after.isMaximized = before.isMaximized
    /\ after.title = before.title
    /\ after.component = before.component
    /\ after.props = before.props

\* the fields of the other windows the claim names
SameOtherState(before, after) ==
    /\ after.position = before.position
    /\ after.isMaximized = before.isMaximized
    /\ after.props = before.props

\* the windows ws became the windows after, for a call on window id
Preserved(ws, after, id) ==
    /\ Len(after) = Len(ws)
    /\ \A j \in 1..Len(ws) :
        /\ after[j].id = ws[j].id
        /\ IF ws[j].id = id THEN SameOwnState(ws[j], after[j])
                            ELSE SameOtherState(ws[j], after[j])

MinimizeThenRestore ==
    \A i \in 1..Len(windows), targetPosition \in TargetPositionInputs,
       thumbnailUrl \in ThumbnailInputs :
        Preserved(windows,
                  restoreWindow(minimizeWindow(Current, windows[i].id,
                                               targetPosition, thumbnailUrl),
                                windows[i].id).windows,
                  windows[i].id)

C33_Step ==
    \A i \in 1..Len(windows) :
        (\/ \E targetPosition \in TargetPositionInputs, thumbnailUrl \in ThumbnailInputs :
               MinimizeWindowCall(windows[i].id, targetPosition, thumbnailUrl)
         \/ Render(restoreWindow(Current, windows[i].id)))
        => Preserved(windows, windows', windows[i].id)

-----------------------------------------------------------------------------
(* Claims on the active window id *)

\* the positions in windows of the windows flagged active
ActiveFlagged == {i \in 1..Len(windows) : windows[i].isActive}

ActiveIdAgrees ==
    IF activeWindowId = NullId THEN ActiveFlagged = {}
    ELSE \E i \in 1..Len(windows) :
            ActiveFlagged = {i} /\ windows[i].id = activeWindowId

\* C34: in every state reachable by window manager operations with arbitrary
\* id arguments, activeWindowId is null exactly when no window has isActive,
\* and otherwise is the id of the one open window with isActive
C34_ActiveIdAgreesWithFlags == []ActiveIdAgrees

\* activeWindowId names a window that is not open, and no window is active
C34_Witness ==
    /\ activeWindowId # NullId
    /\ \A i \in 1..Len(windows) : windows[i].id # activeWindowId
    /\ ActiveFlagged = {}

-----------------------------------------------------------------------------
(* Claims on termination of the recursive operations *)

\* deleteEntity(id) and getPath(id), called now, return
ReturnsNow(id) ==
    /\ ~deleteEntity(Begin(0), id, Cardinality(DOMAIN store) + 1).hung
    /\ ~getPathIn(Begin(0), id, Cardinality(DOMAIN store) + 1)[1].hung

\* C35: in every state reachable by file-system operations, moveEntity
\* included, deleteEntity(id) and getPath(id) complete with a result after
\* finitely many storage calls, for every entity id: no call is left running
\* for ever, and none would be if it were made now
C35_DeleteAndGetPathTerminate ==
    [](~fsHung /\ (initialized => \A id \in Ids : ReturnsNow(id)))

\* a deleteEntity call is running for ever, on a store in which getPath of
\* some entity does not return either
C35_Witness ==
    /\ fsHung
    /\ last.op = "hung"
    /\ \E id \in DOMAIN store :
         getPath(store, id, Cardinality(DOMAIN store) + 1) = Endless

-----------------------------------------------------------------------------
(* Claims on the tree after failures *)

\* the entities, the root aside, whose parentId names no directory of the store
Orphans ==
    {id \in DOMAIN store :
        /\ store[id].parentId # NullId
        /\ ~(/\ store[id].parentId \in DOMAIN store
             /\ store[store[id].parentId].type = "directory")}

\* C36: after every completed file-system operation, a deleteEntity on a
\* directory during which the deletion of a child fails with a storage fault
\* included, every entity in the store other than the root has a parentId
\* that names a directory still present in the store
C36_NoOrphans == [](~fsHung => Orphans = {})

\* a deleteEntity returned success and left an entity whose parent is gone
C36_Witness ==
    /\ ~fsHung
    /\ last.op = "deleteEntity" /\ last.success
    /\ Orphans # {}

-----------------------------------------------------------------------------
(* Claims on termination of the openers *)

\* the opener returned having opened one window or shown one error dialog
OneOutcome(e) == ~e.hung /\ Len(e.opens) + Len(e.errors) = 1

LinksTerminate ==
    initialized =>
        \A id \in DOMAIN store, overrideAppId \in OverrideInputs,
           position \in OpenerPositionInputs :
            store[id].type = "link" =>
                /\ OneOutcome(openEntity(NoEffects, FileSystemNow, DEFAULT_APPS_2,
                                         store[id], overrideAppId, position))
                /\ OneOutcome(openEntity_010(NoEffects, FileSystemNow, DEFAULT_APPS,
                                             store[id], overrideAppId, position))

\* C37: for every file-system state and every link entity, a file or
\* directory link whose target resolves to a link (another one or itself)
\* included, openEntity completes after finitely many steps, having either
\* opened exactly one window or shown exactly one error dialog
C37_OpeningALinkTerminates == []LinksTerminate

\* a link whose target path is its own path: openEntity of the hook follows
\* it for ever, and opens no window and shows no dialog
C37_Witness ==
    /\ initialized
    /\ \E id \in DOMAIN store :
        /\ store[id].type = "link"
        /\ store[id].targetType \in {"file", "directory"}
        /\ getEntityByPath(store, initialized, mem.rootId, PathOf(store[id].target)) = id
        /\ LET e == openEntity(NoEffects, FileSystemNow, DEFAULT_APPS_2, store[id],
                               None, [x |-> 50, y |-> 50])
           IN  e.hung /\ e.opens = <<>> /\ e.errors = <<>>

-----------------------------------------------------------------------------
(* initialize, storage call by storage call, on an empty database *)

\* this.state as createNewFileSystem sets it for the root it drew
RootOnly(rootId) ==
    [entities |-> Put(<<>>, Directory(rootId, <<"/">>, NullId)), rootId |-> rootId]

\* initialize() is called: it returns at once when this.initialized is set,
\* and otherwise runs up to its first await, db.getFileSystemState.
\* overlaps says that an earlier call had not completed.
IssueInitialize ==
    /\ Len(calls.running) < MaxCalls
    /\ calls' = [calls EXCEPT !.running = Append(@,
                    [op |-> "initialize",
                     pc |-> IF initialized THEN "done" ELSE "getFileSystemState",
                     rootId |-> NoRootId, k |-> 0, overlaps |-> InFlight # {},
                     success |-> initialized, error |-> ""])]
    /\ last' = IF initialized
               THEN [op |-> "initialize", success |-> TRUE, error |-> "",
                     log |-> <<>>, stamped |-> {}]
               ELSE last
    /\ UNCHANGED <<store, saved, mem, initialized, nextId, fsHung, faults>>
    /\ UNCHANGED <<wmVars, uiVars>>

\* initialize from the storage call it awaits to the next await or to its
\* return.  createNewFileSystem draws the root's uuid and assigns this.state
\* before it awaits db.saveEntity(rootDir); each of its createDirectory,
\* createLink and createFile calls is taken whole; a call of it that must
\* succeed and does not is caught, and the root alone is saved.
StepInitialize(i) ==
    LET call == calls.running[i]
    IN  /\ call.op = "initialize"
        /\ \/ /\ call.pc = "getFileSystemState"
              /\ IF saved # NoState
                 THEN /\ mem' = saved
                      /\ initialized' = TRUE
                      /\ Returns(i, call, TRUE, "", {})
                      /\ UNCHANGED nextId
                 ELSE /\ mem' = RootOnly(nextId)
                      /\ nextId' = nextId + 1 + Len(DefaultTree)
                      /\ Goes(i, [call EXCEPT !.pc = "saveEntity", !.rootId = nextId])
                      /\ UNCHANGED <<initialized, last>>
              /\ UNCHANGED <<store, saved>>
           \/ /\ call.pc = "saveEntity"
              /\ store' = Put(store, Directory(call.rootId, <<"/">>, NullId))
              /\ Goes(i, [call EXCEPT !.pc = "createNewFileSystem", !.k = 1])
              /\ UNCHANGED <<mem, saved, initialized, nextId, last>>
           \/ /\ call.pc = "createNewFileSystem"
              /\ LET r == DefaultCall(Begin(0), call.k, call.rootId)
                 IN  IF DefaultTree[call.k].must /\ ~r.success
                     THEN /\ store' = r.store
                          /\ mem' = RootOnly(call.rootId)
                          /\ saved' = RootOnly(call.rootId)
                          /\ initialized' = TRUE
                          /\ Returns(i, call, TRUE, "", {})
                     ELSE /\ store' = r.store
                          /\ mem' = r.mem
                          /\ saved' = r.saved
                          /\ Goes(i, [call EXCEPT
                                        !.pc = IF call.k = Len(DefaultTree)
                                               THEN "saveFileSystemState" ELSE @,
                                        !.k = @ + 1])
                          /\ UNCHANGED <<initialized, last>>
              /\ UNCHANGED nextId
           \/ /\ call.pc = "saveFileSystemState"
              /\ saved' = mem
              /\ initialized' = TRUE
              /\ Returns(i, call, TRUE, "", {})
              /\ UNCHANGED <<store, mem, nextId>>

StepMount ==
    /\ \E i \in InFlight : StepInitialize(i)
    /\ UNCHANGED <<fsHung, faults>>
    /\ UNCHANGED <<wmVars, uiVars>>

NextMount ==
    \/ IssueInitialize
    \/ StepMount
    \/ Settle

\* the service from an empty database, initialize being called by a mount
\* effect that may run again before its first run's call has completed
SpecMount == InitEmpty /\ [][NextMount]_vars

\* every initialize call made has returned, and one was made while another
\* was running
OverlappedAndDone ==
    /\ InFlight = {}
    /\ \E i \in DOMAIN calls.running : calls.running[i].overlaps

Roots == {id \in DOMAIN store : store[id].parentId = NullId}

OneTree ==
    /\ Cardinality(Roots) = 1
    /\ Cardinality(DOMAIN store) = 1 + Len(DefaultTree)
    /\ mem.rootId \in Roots

\* C38: when initialize() is called a second time before the first call has
\* completed on an empty store, the resulting entity store contains exactly
\* one entity with parentId null and one default tree, and the in-memory
\* rootId names a root that is present in the store
C38_OverlappingInitializeOneTree == [](OverlappedAndDone => OneTree)

\* both calls returned success, and the store holds two roots, each with a
\* default tree
C38_Witness ==
    /\ OverlappedAndDone
    /\ \A i \in DOMAIN calls.running : calls.running[i].success
    /\ Cardinality(Roots) = 2
    /\ Cardinality(DOMAIN store) = 2 * (1 + Len(DefaultTree))
    /\ mem.rootId \in Roots

-----------------------------------------------------------------------------
(* Claims on the minimize animation *)

\* the windows that carry a minimizeAnimation are minimized
AnimationWhileMinimized ==
    \A i \in 1..Len(windows) :
        windows[i].minimizeAnimation # None => windows[i].isMinimized

C39_Step ==
    \A i \in 1..Len(windows) :
        (/\ windows[i].isMinimized
         /\ windows[i].minimizeAnimation # None
         /\ ActivateWindowCall(windows[i].id))
        => windows'[i].minimizeAnimation = None

\* C39: in every state reachable by window manager operations, a window that
\* carries a minimizeAnimation has isMinimized = true; activateWindow(id) on
\* a minimized window whose animation has not been cleared leaves no
\* minimizeAnimation on it
C39_AnimationOnlyWhileMinimized ==
    []AnimationWhileMinimized /\ [][C39_Step]_vars

\* a window activated while its minimize animation was running: it is
\* visible and active, and still carries the animation
C39_Witness ==
    \E i \in 1..Len(windows) :
        /\ ~windows[i].isMinimized
        /\ windows[i].isActive
        /\ windows[i].minimizeAnimation # None
        /\ windows[i].thumbnail = Null

====
